---- MODULE Spec2Model ----
(***************************************************************************)
(* Model of the floorplanner core (utils: calculatePhysicalSize,           *)
(* performLayout, checkOverlapsInModule, organizeChildrenMosaic,           *)
(* optimizeLayoutRecursive, the tree-rewrite helpers) and of the           *)
(* application state around it (App, ModuleForm, AutoLayoutView drag).     *)
(*                                                                         *)
(* Number encoding.  JavaScript numbers are held in fixed point:           *)
(*   - lengths, coordinates and areas at resolution 1 (um, um^2);          *)
(*   - ratios (aspectRatio, internalAspectRatio, feasible ratios) in       *)
(*     hundredths, the resolution toFixed(2) writes back;                  *)
(*   - TechNodeConfig fields in thousandths (0.027 is 27).                 *)
(* Division and Math.sqrt round down to that resolution.  The three        *)
(* non-finite values NaN, Infinity and -Infinity are kept as values of     *)
(* their own and every arithmetic operator propagates them as IEEE does.   *)
(***************************************************************************)
EXTENDS Integers, Sequences, FiniteSets, TLC

(***************************************************************************)
(* Program constants                                                       *)
(***************************************************************************)
GLOBAL_MARGIN == 24
GLOBAL_HEADER == 36
INTER_MODULE_GAP == 16
\* toFixed(2): ratios are written back with two decimals; 1.0 is Hundredths.
Hundredths == 100
\* TechNodeConfig fields are held in thousandths; 1.0 is Thousandths.
Thousandths == 1000

(***************************************************************************)
(* JavaScript numbers                                                      *)
(***************************************************************************)
\* the largest and smallest 32-bit integers stand for the non-finite values; a
\* finite result never reaches them (TLC reports an overflow instead)
PInf == (2^30 - 1) + 2^30
NInf == 0 - PInf
NaN == NInf - 1

IsFinite(a) == a # PInf /\ a # NInf /\ a # NaN

\* sign of a number that is not NaN: -1, 0, 1
Sgn(a) == IF a > 0 THEN 1 ELSE IF a < 0 THEN -1 ELSE 0

fAdd(a, b) ==
    IF a = NaN \/ b = NaN THEN NaN
    ELSE IF IsFinite(a) /\ IsFinite(b) THEN a + b
    ELSE IF IsFinite(a) THEN b
    ELSE IF IsFinite(b) THEN a
    ELSE IF a = b THEN a ELSE NaN

fNeg(a) == IF a = NaN THEN NaN ELSE IF a = PInf THEN NInf ELSE IF a = NInf THEN PInf ELSE 0 - a

fSub(a, b) == fAdd(a, fNeg(b))

fMul(a, b) ==
    IF a = NaN \/ b = NaN THEN NaN
    ELSE IF IsFinite(a) /\ IsFinite(b) THEN a * b
    ELSE IF a = 0 \/ b = 0 THEN NaN
    ELSE IF Sgn(a) * Sgn(b) > 0 THEN PInf ELSE NInf

\* a / b, rounded down to resolution 1
fDiv(a, b) ==
    IF a = NaN \/ b = NaN THEN NaN
    ELSE IF IsFinite(a) /\ IsFinite(b) THEN
        IF b # 0 THEN a \div b
        ELSE IF a = 0 THEN NaN ELSE IF a > 0 THEN PInf ELSE NInf
    ELSE IF IsFinite(b) THEN
        IF Sgn(a) * (IF b < 0 THEN -1 ELSE 1) > 0 THEN PInf ELSE NInf
    ELSE IF IsFinite(a) THEN 0
    ELSE NaN

\* Math.max / Math.min: NaN if either argument is NaN
\* a variant of Math.max that returns its first argument
fMaxFirst(a, b) == a

fMax(a, b) == IF a = NaN \/ b = NaN THEN NaN ELSE IF a >= b THEN a ELSE b
fMin(a, b) == IF a = NaN \/ b = NaN THEN NaN ELSE IF a <= b THEN a ELSE b

\* comparisons: false when either side is NaN
fGT(a, b) == a # NaN /\ b # NaN /\ a > b
fLT(a, b) == a # NaN /\ b # NaN /\ a < b

RECURSIVE SqrtIter(_, _, _)
SqrtIter(n, lo, hi) ==
    IF lo >= hi THEN lo
    ELSE LET mid == (lo + hi + 1) \div 2
         IN  IF mid * mid <= n THEN SqrtIter(n, mid, hi) ELSE SqrtIter(n, lo, mid - 1)

\* Math.sqrt, rounded down to resolution 1
fSqrt(a) ==
    IF a = NaN \/ a = NInf THEN NaN
    ELSE IF a = PInf THEN PInf
    ELSE IF a < 0 THEN NaN
    ELSE SqrtIter(a, 0, IF a < 46340 THEN a ELSE 46340)

\* v || 1.0 on a ratio: 0 and NaN are falsy
OrOne(v) == IF v = 0 \/ v = NaN THEN Hundredths ELSE v

\* v || 0 on a number
OrZero(v) == IF v = NaN THEN 0 ELSE v

\* a / r for a ratio r held in hundredths
DivRatio(a, r) == fDiv(fMul(a, Hundredths), r)

\* a * r for a ratio r held in hundredths
MulRatio(a, r) == fDiv(fMul(a, r), Hundredths)

\* a * k for a TechNodeConfig value k held in thousandths, at resolution 1
MulThousandths(a, k) ==
    IF IsFinite(a) /\ IsFinite(k) /\ a >= 0
    THEN (a \div Thousandths) * k + ((a % Thousandths) * k) \div Thousandths
    ELSE fDiv(fMul(a, k), Thousandths)

\* Number((w / h).toFixed(2)), as a ratio in hundredths (round half up)
ToFixed2(w, h) ==
    IF IsFinite(w) /\ IsFinite(h) /\ h # 0
    THEN (2 * Hundredths * w + h) \div (2 * h)
    ELSE fDiv(w, h)

(***************************************************************************)
(* calculatePhysicalSize                                                   *)
(* regArea, memArea and logicArea are in thousandths of um^2 (count times  *)
(* a config value); every other area is in um^2.                           *)
(***************************************************************************)
\* a variant that takes the stored internal ratio whether linked or not
StoredInternalAR(node) == OrOne(node.internalAspectRatio)

\* the local-logic block's ratio: aspectRatio when linked
EffectiveInternalAR(node) ==
    IF node.isRatioLinked THEN node.aspectRatio ELSE OrOne(node.internalAspectRatio)

RECURSIVE calculatePhysicalSize(_, _)

\* children.map(c => calculatePhysicalSize(c, config))
RECURSIVE SizesOf(_, _)
SizesOf(children, config) ==
    IF children = <<>> THEN <<>>
    ELSE <<calculatePhysicalSize(Head(children), config)>> \o SizesOf(Tail(children), config)

\* childrenInfo.reduce((acc, c) => acc + c.w * c.h, 0)
RECURSIVE AreaSum(_, _)
AreaSum(infos, acc) ==
    IF infos = <<>> THEN acc
    ELSE AreaSum(Tail(infos), fAdd(acc, fMul(Head(infos).w, Head(infos).h)))

\* childrenInfo.forEach: the largest right edge
RECURSIVE MaxContentX(_, _, _)
MaxContentX(children, infos, acc) ==
    IF children = <<>> THEN acc
    ELSE MaxContentX(Tail(children), Tail(infos),
                     fMax(acc, fAdd(OrZero(Head(children).x), Head(infos).w)))

\* childrenInfo.forEach: the largest bottom edge
RECURSIVE MaxContentY(_, _, _)
MaxContentY(children, infos, acc) ==
    IF children = <<>> THEN acc
    ELSE MaxContentY(Tail(children), Tail(infos),
                     fMax(acc, fAdd(OrZero(Head(children).y), Head(infos).h)))

\* the areas of the node's own resources and its local area
AreasOf(regArea, memArea, logicArea, rawLocalArea, utilization) ==
    [ regArea |-> regArea, memArea |-> memArea, logicArea |-> logicArea,
      rawLocalArea |-> rawLocalArea,
      localArea |-> fDiv(rawLocalArea, utilization) ]

\* a variant in which memory is taken off the local area instead of added
SummedAreasLessMemory(regArea, memArea, logicArea, utilization) ==
    AreasOf(regArea, memArea, logicArea,
            fAdd(fSub(regArea, memArea), logicArea), utilization)

\* regArea + memArea + logicArea, and the local area it gives
SummedAreas(regArea, memArea, logicArea, utilization) ==
    AreasOf(regArea, memArea, logicArea,
            fAdd(fAdd(regArea, memArea), logicArea), utilization)

LocalAreas(node, config) ==
    SummedAreas(fMul(OrZero(node.registers), config.dffArea),
                fMul(OrZero(node.memoryBits), config.sramAreaPerBit),
                fMul(OrZero(node.logicGates), config.gateArea),
                config.utilization)

\* the result record, from the ideal and the minimal envelope
SizeResult(node, config, areas, childrenAreaSum, totalContentArea, idealW, idealH, W_min, H_min) ==
    LET finalW == fMax(idealW, W_min)
        finalH == fMax(idealH, H_min)
        minFeasibleRatio == fDiv(fMul(fMul(W_min, W_min), Hundredths), totalContentArea)
        maxFeasibleRatio == fDiv(fMul(totalContentArea, Hundredths), fMul(H_min, H_min))
    IN  [ w |-> finalW, h |-> finalH,
          stats |-> [ id |-> node.id, name |-> node.name,
                      localArea |-> areas.localArea,
                      childrenArea |-> childrenAreaSum,
                      totalArea |-> fMul(finalW, finalH),
                      regArea |-> areas.regArea, memArea |-> areas.memArea,
                      logicArea |-> areas.logicArea,
                      utilizationOverhead |->
                          fSub(MulThousandths(fMul(finalW, finalH), config.utilization),
                               fDiv(areas.rawLocalArea, Thousandths)),
                      calculatedWidth |-> finalW,
                      calculatedHeight |-> finalH,
                      idealWidth |-> idealW,
                      idealHeight |-> idealH,
                      minFeasibleRatio |-> fMin(minFeasibleRatio, maxFeasibleRatio),
                      maxFeasibleRatio |-> fMax(minFeasibleRatio, maxFeasibleRatio) ] ]

\* the ideal envelope and the smallest one that holds the content
SizeOfContent(node, config, areas, childrenInfo, totalContentArea) ==
    LET effectiveInternalAR == EffectiveInternalAR(node)
        ratio == OrOne(node.aspectRatio)
        idealH == fSqrt(DivRatio(totalContentArea, ratio))
        hL == fSqrt(DivRatio(areas.localArea, effectiveInternalAR))
        wL == MulRatio(hL, effectiveInternalAR)
        maxContentX == MaxContentX(node.children, childrenInfo,
                                   fAdd(OrZero(node.internalX), wL))
        maxContentY == MaxContentY(node.children, childrenInfo,
                                   fAdd(OrZero(node.internalY), hL))
    IN  SizeResult(node, config, areas, AreaSum(childrenInfo, 0), totalContentArea,
                   MulRatio(idealH, ratio), idealH,
                   fAdd(maxContentX, GLOBAL_MARGIN * 2),
                   fAdd(maxContentY, GLOBAL_MARGIN * 2 + GLOBAL_HEADER))

SizeOfAreas(node, config, areas, childrenInfo) ==
    SizeOfContent(node, config, areas, childrenInfo,
                  fAdd(areas.localArea, AreaSum(childrenInfo, 0)))

calculatePhysicalSize(node, config) ==
    SizeOfAreas(node, config, LocalAreas(node, config), SizesOf(node.children, config))

(***************************************************************************)
(* checkOverlapsInModule                                                   *)
(***************************************************************************)
\* width and height of the local-logic block, as performLayout,
\* checkOverlapsInModule and organizeChildrenMosaic each recompute them
LocalSizeOf(localArea, effectiveInternalAR) ==
    LET localH == fSqrt(DivRatio(localArea, effectiveInternalAR))
        localW == MulRatio(localH, effectiveInternalAR)
    IN  [w |-> localW, h |-> localH]

LocalSize(node, config) ==
    LocalSizeOf(calculatePhysicalSize(node, config).stats.localArea,
                EffectiveInternalAR(node))

\* children.map(c => ({id, name, x, y, w, h}))
RECURSIVE ChildBlocks(_, _)
ChildBlock(c, size) ==
    [id |-> c.id, x |-> OrZero(c.x), y |-> OrZero(c.y), w |-> size.w, h |-> size.h]

ChildBlocks(children, config) ==
    IF children = <<>> THEN <<>>
    ELSE <<ChildBlock(Head(children), calculatePhysicalSize(Head(children), config))>>
         \o ChildBlocks(Tail(children), config)

\* the rectangles checkOverlapsInModule compares: local logic first, then children
LocalBlock(node, local) ==
    [id |-> "internal", x |-> OrZero(node.internalX), y |-> OrZero(node.internalY),
     w |-> local.w, h |-> local.h]

Blocks(node, config) ==
    <<LocalBlock(node, LocalSize(node, config))>> \o ChildBlocks(node.children, config)

XOverlap(a, b) ==
    fMax(0, fSub(fMin(fAdd(a.x, a.w), fAdd(b.x, b.w)), fMax(a.x, b.x)))

YOverlap(a, b) ==
    fMax(0, fSub(fMin(fAdd(a.y, a.h), fAdd(b.y, b.h)), fMax(a.y, b.y)))

\* a variant that marks the first block's corner instead of the intersection's
MarkerAtFirst(a, b) ==
    [x |-> a.x, y |-> a.y,
     w |-> XOverlap(a, b), h |-> YOverlap(a, b), ids |-> <<a.id, b.id>>]

\* the marker pushed for an overlapping pair
MarkerOf(a, b) ==
    [x |-> fMax(a.x, b.x), y |-> fMax(a.y, b.y),
     w |-> XOverlap(a, b), h |-> YOverlap(a, b), ids |-> <<a.id, b.id>>]

\* the double loop over the pairs i < j
OverlapsAmong(blocks) ==
    LET RECURSIVE Loop(_, _, _)
        Loop(i, j, markers) ==
            IF i > Len(blocks) THEN markers
            ELSE IF j > Len(blocks) THEN Loop(i + 1, i + 2, markers)
            ELSE Loop(i, j + 1,
                      IF /\ fGT(XOverlap(blocks[i], blocks[j]), 0)
                         /\ fGT(YOverlap(blocks[i], blocks[j]), 0)
                      THEN Append(markers, MarkerOf(blocks[i], blocks[j]))
                      ELSE markers)
    IN  Loop(1, 2, <<>>)

checkOverlapsInModule(node, config) == OverlapsAmong(Blocks(node, config))

(***************************************************************************)
(* organizeChildrenMosaic                                                  *)
(***************************************************************************)
\* d1 || d2 on numbers
OrElse(d1, d2) == IF d1 = 0 \/ d1 = NaN THEN d2 ELSE d1

\* (a, b) => a.y - b.y || a.x - b.x
CmpYX(a, b) == OrElse(fSub(a.y, b.y), fSub(a.x, b.x))

\* (a, b) => a.x - b.x || a.y - b.y
CmpXY(a, b) == OrElse(fSub(a.x, b.x), fSub(a.y, b.y))

\* the comparator of the sort before the vertical ("yx") or horizontal pass
Comparator(order, a, b) == IF order = "yx" THEN CmpYX(a, b) ELSE CmpXY(a, b)

\* Array.prototype.sort with that comparator: stable; a NaN result counts as 0
ArraySort(s, order) ==
    LET RECURSIVE InsertSorted(_, _)
        InsertSorted(e, t) ==
            IF t = <<>> THEN <<e>>
            ELSE LET last == t[Len(t)]
                 IN  IF fGT(Comparator(order, last, e), 0)
                     THEN Append(InsertSorted(e, SubSeq(t, 1, Len(t) - 1)), last)
                     ELSE Append(t, e)
        RECURSIVE SortFrom(_, _)
        SortFrom(done, todo) ==
            IF todo = <<>> THEN done
            ELSE SortFrom(InsertSorted(Head(todo), done), Tail(todo))
    IN  SortFrom(<<>>, s)

\* the raw (unclamped) span overlaps the passes test against 1
RawXOverlap(a, b) == fSub(fMin(fAdd(a.x, a.w), fAdd(b.x, b.w)), fMax(a.x, b.x))
RawYOverlap(a, b) == fSub(fMin(fAdd(a.y, a.h), fAdd(b.y, b.h)), fMax(a.y, b.y))

\* the inner loop of the vertical pass: the entities before `entity`, already moved
\* a variant of the inner loop that rests an entity on the one above it
\* without the gap
RECURSIVE BestYTouching(_, _, _)
BestYTouching(entity, others, bestY) ==
    IF others = <<>> THEN bestY
    ELSE LET other == Head(others)
         IN  BestYTouching(entity, Tail(others),
                   IF fGT(RawXOverlap(entity, other), 1)
                   THEN fMax(bestY, fAdd(other.y, other.h))
                   ELSE bestY)

RECURSIVE BestY(_, _, _)
BestY(entity, others, bestY) ==
    IF others = <<>> THEN bestY
    ELSE LET other == Head(others)
         IN  BestY(entity, Tail(others),
                   IF fGT(RawXOverlap(entity, other), 1)
                   THEN fMax(bestY, fAdd(fAdd(other.y, other.h), INTER_MODULE_GAP))
                   ELSE bestY)

RECURSIVE VerticalPass(_, _)
VerticalPass(done, todo) ==
    IF todo = <<>> THEN done
    ELSE LET entity == Head(todo)
         IN  VerticalPass(Append(done, [entity EXCEPT !.y = BestY(entity, done, 0)]), Tail(todo))

RECURSIVE BestX(_, _, _)
BestX(entity, others, bestX) ==
    IF others = <<>> THEN bestX
    ELSE LET other == Head(others)
         IN  BestX(entity, Tail(others),
                   IF fGT(RawYOverlap(entity, other), 1)
                   THEN fMax(bestX, fAdd(fAdd(other.x, other.w), INTER_MODULE_GAP))
                   ELSE bestX)

RECURSIVE HorizontalPass(_, _)
HorizontalPass(done, todo) ==
    IF todo = <<>> THEN done
    ELSE LET entity == Head(todo)
         IN  HorizontalPass(Append(done, [entity EXCEPT !.x = BestX(entity, done, 0)]), Tail(todo))

\* children.map(c => ({isLocal: false, id, x, y, w, h, original: c}))
RECURSIVE ChildEntities(_, _)
ChildEntity(c, size) ==
    [isLocal |-> FALSE, id |-> c.id, x |-> OrZero(c.x), y |-> OrZero(c.y),
     w |-> size.w, h |-> size.h, original |-> c]

ChildEntities(children, config) ==
    IF children = <<>> THEN <<>>
    ELSE <<ChildEntity(Head(children), calculatePhysicalSize(Head(children), config))>>
         \o ChildEntities(Tail(children), config)

\* a variant of step 4 that also puts each child's local logic at its origin
UpdatedChildrenReset(entities) ==
    LET NotLocal(e) == ~e.isLocal
        kept == SelectSeq(entities, NotLocal)
    IN  [i \in DOMAIN kept |->
            [kept[i].original EXCEPT !.x = kept[i].x, !.y = kept[i].y, !.internalX = 0]]

\* step 4: entities.filter(e => !e.isLocal).map(e => ({...e.original, x: e.x, y: e.y}))
RECURSIVE UpdatedChildren(_)
UpdatedChildren(entities) ==
    IF entities = <<>> THEN <<>>
    ELSE LET e == Head(entities)
         IN  (IF e.isLocal THEN <<>> ELSE << [e.original EXCEPT !.x = e.x, !.y = e.y] >>)
             \o UpdatedChildren(Tail(entities))

\* step 1: the local-logic block, then the children, each with its size
LocalEntity(node, local) ==
    [isLocal |-> TRUE, id |-> "internal",
     x |-> OrZero(node.internalX), y |-> OrZero(node.internalY),
     w |-> local.w, h |-> local.h]

Entities(node, config) ==
    <<LocalEntity(node, LocalSize(node, config))>> \o ChildEntities(node.children, config)

\* steps 2 and 3: sort by (y, x) and sweep, then sort by (x, y) and sweep
Compacted(entities) ==
    HorizontalPass(<<>>, ArraySort(VerticalPass(<<>>, ArraySort(entities, "yx")), "xy"))

\* maxX / maxY, raised by one child of the given size
ExtentWith(c, size, extent) ==
    [maxX |-> fMax(extent.maxX, fAdd(c.x, size.w)),
     maxY |-> fMax(extent.maxY, fAdd(c.y, size.h))]

\* updatedChildren.forEach(c => { maxX = ...; maxY = ... })
RECURSIVE MaxExtent(_, _, _)
MaxExtent(children, config, extent) ==
    IF children = <<>> THEN extent
    ELSE MaxExtent(Tail(children), config,
                   ExtentWith(Head(children),
                              calculatePhysicalSize(Head(children), config), extent))

\* a leaf branch that, unlike the source's, also writes the default ratio
LeafResultResetsRatio(node) ==
    [node EXCEPT !.internalX = 0, !.internalY = 0, !.aspectRatio = Hundredths]

\* the leaf branch: { ...node, internalX: 0, internalY: 0 }
LeafResult(node) ==
    [node EXCEPT !.internalX = 0, !.internalY = 0]

\* a variant of step 5 that writes the ratio to internalAspectRatio whether
\* or not the ratios are linked
WithActualRatioBoth(node, localLogic, updatedChildren, actualRatio) ==
    [node EXCEPT !.internalX = localLogic.x,
                 !.internalY = localLogic.y,
                 !.children = updatedChildren,
                 !.aspectRatio = actualRatio,
                 !.internalAspectRatio = actualRatio]

\* step 5: the ratio of the envelope around the compacted content, written
\* to aspectRatio, and to internalAspectRatio when the ratios are linked
WithActualRatio(node, localLogic, updatedChildren, actualRatio) ==
    [node EXCEPT !.internalX = localLogic.x,
                 !.internalY = localLogic.y,
                 !.children = updatedChildren,
                 !.aspectRatio = actualRatio,
                 !.internalAspectRatio =
                     IF node.isRatioLinked THEN actualRatio ELSE node.internalAspectRatio]

\* Number((finalContentW / finalContentH).toFixed(2))
ActualRatio(extent) ==
    ToFixed2(fAdd(extent.maxX, GLOBAL_MARGIN * 2),
             fAdd(extent.maxY, GLOBAL_MARGIN * 2 + GLOBAL_HEADER))

Resized(node, config, localLogic, updatedChildren) ==
    WithActualRatio(node, localLogic, updatedChildren,
        ActualRatio(MaxExtent(updatedChildren, config,
                              [maxX |-> fAdd(localLogic.x, localLogic.w),
                               maxY |-> fAdd(localLogic.y, localLogic.h)])))

\* step 4: the positions of the compacted entities, written back
WriteBack(node, config, entities) ==
    LET IsLocalEntity(e) == e.isLocal
    IN  Resized(node, config, SelectSeq(entities, IsLocalEntity)[1],
                UpdatedChildren(entities))

organizeChildrenMosaic(node, config) ==
    IF Len(node.children) = 0
    THEN LeafResult(node)
    ELSE WriteBack(node, config, Compacted(Entities(node, config)))

(***************************************************************************)
(* optimizeLayoutRecursive                                                 *)
(***************************************************************************)
RECURSIVE optimizeLayoutRecursive(_, _)

\* children.map(child => optimizeLayoutRecursive(child, config))
RECURSIVE OptimizedChildren(_, _)
OptimizedChildren(children, config) ==
    IF children = <<>> THEN <<>>
    ELSE <<optimizeLayoutRecursive(Head(children), config)>>
         \o OptimizedChildren(Tail(children), config)

optimizeLayoutRecursive(node, config) ==
    LET optimizedChildren == OptimizedChildren(node.children, config)
        baseNode == [node EXCEPT !.children = optimizedChildren]
    IN  organizeChildrenMosaic(baseNode, config)

(***************************************************************************)
(* Tree edits (utils.ts) and hierarchy ingestion (App.tsx)                 *)
(* A function that returns "node or null" is modelled as a sequence that   *)
(* holds the node, or is empty for null.                                   *)
(***************************************************************************)
\* a variant in which the fields of the node win: { ...updates, ...root }
MergeUnder(node, updates) == node @@ updates

\* { ...root, ...updates }
Merge(node, updates) == updates @@ node

RECURSIVE findModuleById(_, _)
RECURSIVE FindInChildren(_, _)
FindInChildren(children, id) ==
    IF children = <<>> THEN <<>>
    ELSE LET found == findModuleById(Head(children), id)
         IN  IF found # <<>> THEN found ELSE FindInChildren(Tail(children), id)

findModuleById(node, id) ==
    IF node.id = id THEN <<node>> ELSE FindInChildren(node.children, id)

RECURSIVE updateNodeInTree(_, _, _)
RECURSIVE UpdateInChildren(_, _, _)
UpdateInChildren(children, id, updates) ==
    IF children = <<>> THEN <<>>
    ELSE <<updateNodeInTree(Head(children), id, updates)>>
         \o UpdateInChildren(Tail(children), id, updates)

updateNodeInTree(root, id, updates) ==
    IF root.id = id THEN Merge(root, updates)
    ELSE [root EXCEPT !.children = UpdateInChildren(root.children, id, updates)]

RECURSIVE findParentOf(_, _)
RECURSIVE FindParentInChildren(_, _)
FindParentInChildren(children, tid) ==
    IF children = <<>> THEN <<>>
    ELSE LET p == findParentOf(Head(children), tid)
         IN  IF p # <<>> THEN p ELSE FindParentInChildren(Tail(children), tid)

\* tid is a rectangle id, [id, internal]: "<id>" or "<id>:internal"
findParentOf(node, tid) ==
    IF tid.internal /\ node.id = tid.id THEN <<node>>
    ELSE IF \E i \in DOMAIN node.children : node.children[i].id = tid.id
         THEN <<node>>
         ELSE FindParentInChildren(node.children, tid)

RECURSIVE deleteNodeInTree(_, _)
RECURSIVE DeleteInChildren(_, _)
\* children.map(c => deleteNodeInTree(c, id)).filter(c => c !== null)
DeleteInChildren(children, id) ==
    IF children = <<>> THEN <<>>
    ELSE deleteNodeInTree(Head(children), id) \o DeleteInChildren(Tail(children), id)

\* a variant that also empties the children of a node it keeps
DeleteEmptying(root, id) ==
    IF root.id = id THEN <<>>
    ELSE <<[root EXCEPT !.children = <<>>]>>

deleteNodeInTree(root, id) ==
    IF root.id = id THEN <<>>
    ELSE <<[root EXCEPT !.children = DeleteInChildren(root.children, id)]>>

RECURSIVE addNodeToParent(_, _, _)
RECURSIVE AddInChildren(_, _, _)
AddInChildren(children, pId, newNode) ==
    IF children = <<>> THEN <<>>
    ELSE <<addNodeToParent(Head(children), pId, newNode)>>
         \o AddInChildren(Tail(children), pId, newNode)

addNodeToParent(root, pId, newNode) ==
    IF root.id = pId THEN [root EXCEPT !.children = Append(root.children, newNode)]
    ELSE [root EXCEPT !.children = AddInChildren(root.children, pId, newNode)]

\* node.f || 0 for a field that an imported file may leave out
FieldOrZero(raw, f) == IF f \in DOMAIN raw THEN OrZero(raw[f]) ELSE 0

\* a variant that falls back only when the field is missing (node.f ?? fallback)
FieldOrIfMissing(raw, f, fallback) ==
    IF f \in DOMAIN raw THEN raw[f] ELSE fallback

\* node.f || fallback
FieldOr(raw, f, fallback) ==
    IF f \in DOMAIN raw /\ raw[f] # 0 /\ raw[f] # NaN THEN raw[f] ELSE fallback

RECURSIVE enhanceWithGeometry(_)
RECURSIVE EnhanceChildren(_)
EnhanceChildren(children) ==
    IF children = <<>> THEN <<>>
    ELSE <<enhanceWithGeometry(Head(children))>> \o EnhanceChildren(Tail(children))

enhanceWithGeometry(node) ==
    LET rawChildren == IF "children" \in DOMAIN node THEN node.children ELSE <<>>
        hasChildren == Len(rawChildren) > 0
        aspectRatio == FieldOr(node, "aspectRatio", Hundredths)
    IN  Merge(node,
          [ x |-> FieldOrZero(node, "x"),
            y |-> FieldOrZero(node, "y"),
            internalX |-> FieldOrZero(node, "internalX"),
            internalY |-> FieldOrZero(node, "internalY"),
            aspectRatio |-> aspectRatio,
            internalAspectRatio |-> FieldOr(node, "internalAspectRatio", aspectRatio),
            isRatioLinked |-> IF "isRatioLinked" \in DOMAIN node
                              THEN node.isRatioLinked ELSE ~hasChildren,
            children |-> EnhanceChildren(rawChildren) ])

(***************************************************************************)
(* performLayout: the rectangles drawn on the canvas, in drawing order.    *)
(* A rectangle id "<id>" or "<id>:internal" is the pair [id, internal].    *)
(***************************************************************************)
RECURSIVE place(_, _, _, _, _)
RECURSIVE PlaceChildren(_, _, _, _, _)
PlaceChildren(children, absX, absY, parentId, config) ==
    IF children = <<>> THEN <<>>
    ELSE place(Head(children),
               fAdd(fAdd(absX, GLOBAL_MARGIN), OrZero(Head(children).x)),
               fAdd(fAdd(absY, GLOBAL_HEADER), OrZero(Head(children).y)),
               parentId, config)
         \o PlaceChildren(Tail(children), absX, absY, parentId, config)

\* the two rectangles pushed for a node: its container and its local logic
NodeRects(node, absX, absY, parentId, size, local) ==
    << [id |-> node.id, parentId |-> parentId, name |-> node.name,
        x |-> absX, y |-> absY, w |-> size.w, h |-> size.h,
        isInternal |-> FALSE, actualNode |-> node],
       [id |-> node.id, parentId |-> node.id, name |-> "[Local Logic]",
        x |-> fAdd(fAdd(absX, GLOBAL_MARGIN), OrZero(node.internalX)),
        y |-> fAdd(fAdd(absY, GLOBAL_HEADER), OrZero(node.internalY)),
        w |-> local.w, h |-> local.h,
        isInternal |-> TRUE, actualNode |-> node] >>

place(node, absX, absY, parentId, config) ==
    NodeRects(node, absX, absY, parentId,
              calculatePhysicalSize(node, config), LocalSize(node, config))
    \o PlaceChildren(node.children, absX, absY, node.id, config)

LayoutOf(rects, rootResult) ==
    [rects |-> rects, rootW |-> rootResult.w, rootH |-> rootResult.h]

\* a variant that places the root at its stored x and y
performLayoutAtStored(root, config) ==
    LayoutOf(place(root, OrZero(root.x), OrZero(root.y), "root_parent", config),
             calculatePhysicalSize(root, config))

performLayout(root, config) ==
    LayoutOf(place(root, 0, 0, "root_parent", config),
             calculatePhysicalSize(root, config))

(***************************************************************************)
(* Technology configurations (constants.ts), in thousandths                *)
(***************************************************************************)
TECH_NODES ==
    [ n28 |-> [name |-> "28nm HPC+", dffArea |-> 4500, gateArea |-> 500,
               sramAreaPerBit |-> 120, utilization |-> 650],
      n7  |-> [name |-> "7nm FinFET", dffArea |-> 480, gateArea |-> 60,
               sramAreaPerBit |-> 27, utilization |-> 700],
      n5  |-> [name |-> "5nm EUV", dffArea |-> 320, gateArea |-> 40,
               sramAreaPerBit |-> 21, utilization |-> 750] ]

\* a valid configuration in which one register, bit or gate takes 1 um^2
UnitConfig ==
    [name |-> "unit", dffArea |-> Thousandths, gateArea |-> Thousandths,
     sramAreaPerBit |-> Thousandths, utilization |-> Thousandths]

(***************************************************************************)
(* Bounded inputs of the core functions                                    *)
(***************************************************************************)
MaxChildren == 2
MaxCoordIdx == 2
CoordStep == 60
BigCount == 10000

Coords == {0} \cup {CoordStep * k : k \in 1..MaxCoordIdx}
FarCoords == {0, CoordStep * MaxCoordIdx}
Ratios == {25, 75, 100, 400}
ChildIds == <<"a", "b", "c", "d">>

\* a ModuleNode (types.ts)
MkNode(id, registers, x, y, internalX, internalY, aspectRatio, internalAspectRatio, isRatioLinked, children) ==
    [ id |-> id, name |-> id, registers |-> registers, memoryBits |-> 0, logicGates |-> 0,
      x |-> x, y |-> y, internalX |-> internalX, internalY |-> internalY,
      aspectRatio |-> aspectRatio, internalAspectRatio |-> internalAspectRatio,
      isRatioLinked |-> isRatioLinked, children |-> children ]

\* children of an input module: leaves, or a module holding one leaf of its own;
\* a "square" leaf is 100 x 100 (its local logic 52 x 16 plus margins and header)
ChildKinds == {"empty", "leaf", "nest"}

MkChild(id, kind, x, y) ==
    CASE kind = "empty" -> MkNode(id, 0, x, y, 0, 0, Hundredths, Hundredths, TRUE, <<>>)
      [] kind = "leaf"  -> MkNode(id, BigCount, x, y, 0, 0, Hundredths, Hundredths, TRUE, <<>>)
      [] kind = "square" -> MkNode(id, 832, x, y, 0, 0, 325, 325, TRUE, <<>>)
      [] kind = "nest"  -> MkNode(id, 1, x, y, CoordStep, 0, Hundredths, Hundredths, FALSE,
                                  << MkNode(id \o "1", BigCount, 0, 0, 0, 0,
                                            Hundredths, Hundredths, TRUE, <<>>) >>)

RECURSIVE MkChildren(_, _)
MkChildren(cs, i) ==
    IF i > Len(cs) THEN <<>>
    ELSE <<MkChild(ChildIds[i], cs[i][1], cs[i][2], cs[i][3])>> \o MkChildren(cs, i + 1)

\* the children of an input module: up to n of them, each of one kind and
\* with either coordinate near or far
ChildSeqs(n) ==
    UNION { [1..k -> ChildKinds \X FarCoords \X FarCoords] : k \in 0..n }

\* modules laid out freely: positions vary
LayoutInputs(n) ==
    { MkNode("root", r, 0, 0, ix, iy, Hundredths, iar, linked,
             MkChildren(cs, 1)) :
        r \in {0, 1, BigCount}, ix \in FarCoords, iy \in FarCoords, iar \in {Hundredths, 400},
        linked \in BOOLEAN, cs \in ChildSeqs(n) }

\* modules whose target ratio varies, children piled on the origin
RatioInputs(n) ==
    { MkNode("root", r, x, x, 0, 0, ar, Hundredths, linked,
             MkChildren([i \in 1..k |-> <<"leaf", 0, 0>>], 1)) :
        r \in {0, BigCount}, x \in FarCoords, ar \in Ratios, linked \in BOOLEAN,
        k \in 0..n }

\* modules with up to n children
InputNodes(n) == LayoutInputs(n) \cup RatioInputs(n)

\* childless modules: resources, position, local-logic position and the
\* ratio fields all vary
LeafInputs ==
    { MkNode("root", r, x, x, ix, iy, ar, iar, linked, <<>>) :
        r \in {0, 1, BigCount}, x \in FarCoords, ix \in Coords, iy \in FarCoords,
        ar \in Ratios, iar \in {Hundredths, 400}, linked \in BOOLEAN }

\* positions at which 100 x 100 blocks coincide, overlap by half, or touch
Placements == {<<0, 0>>, <<50, 50>>, <<100, 0>>, <<0, 100>>}

\* a child and where it is put: a square at any placement, a larger leaf
\* to the right, or a module with a child of its own
PlacedKinds ==
    ({"square"} \X Placements)
    \cup {<<"leaf", <<100, 0>>>>, <<"nest", <<50, 50>>>>}

\* up to n placed children
PlacedChildSeqs(n) ==
    UNION { [1..k -> PlacedKinds] : k \in 0..n }

RECURSIVE MkPlaced(_, _)
MkPlaced(cs, i) ==
    IF i > Len(cs) THEN <<>>
    ELSE <<MkChild(ChildIds[i], cs[i][1], cs[i][2][1], cs[i][2][2])>> \o MkPlaced(cs, i + 1)

\* how the module itself is stored:
\* <<registers, x and y, aspectRatio, isRatioLinked>>
Shells ==
    { <<0, 0, Hundredths, TRUE>>, <<BigCount, 0, Hundredths, TRUE>>,
      <<BigCount, CoordStep, 25, TRUE>>, <<BigCount, CoordStep, 25, FALSE>> }

\* modules whose local logic and children coincide, overlap or touch
GeometryInputs(n) ==
    { MkNode("root", sh[1], sh[2], sh[2], at[1], at[2], sh[3], Hundredths, sh[4],
             MkPlaced(cs, 1)) :
        sh \in Shells, at \in Placements, cs \in PlacedChildSeqs(n) }

(***************************************************************************)
(* The editor (App.tsx, ModuleForm.tsx, AutoLayoutView.tsx)                *)
(*                                                                         *)
(* data, selectedId and overlapMarkers are React state of App: a handler   *)
(* reads the values of the last render and queues its updates, which       *)
(* React applies in the order they were queued.  Handlers of React events  *)
(* (form buttons and inputs, the hierarchy tree) are rendered before the   *)
(* next event; updates queued from d3 listeners and animation-frame        *)
(* callbacks wait in `pending` until React renders.                        *)
(***************************************************************************)
\* the block that onAddChild adds
NewBlock(newId) ==
    [ id |-> newId, name |-> "BLOCK_NEW", registers |-> 1000, memoryBits |-> 0,
      logicGates |-> 5000, x |-> 20, y |-> 20, internalX |-> 0, internalY |-> 0,
      aspectRatio |-> Hundredths, internalAspectRatio |-> Hundredths,
      isRatioLinked |-> FALSE, children |-> <<>> ]

\* bounds of the editor model
MaxEdits == 2
MaxEvents == 5
MaxClock == 1
MaxWaiting == 1
FarY == 40000
DragStep == 30

\* imported files that leave out optional geometry fields and hold a falsy
\* ratio: the root's local logic and its child `a` start at the same place,
\* and the grandchild lies FarY below the origin of `a`; the root's ratios
\* are linked in one file, and in the other the file does not say
TopFile ==
    [ id |-> "root", name |-> "top", registers |-> 1000, memoryBits |-> 0,
      logicGates |-> 0, aspectRatio |-> 0,
      children |-> <<
        [ id |-> "a", name |-> "a", registers |-> 1000, memoryBits |-> 0,
          logicGates |-> 0, isRatioLinked |-> TRUE,
          children |-> <<
            [ id |-> "a1", name |-> "a1", registers |-> 0, memoryBits |-> 0,
              logicGates |-> 0, y |-> FarY ] >> ] >> ]

ImportedFiles == { TopFile, [isRatioLinked |-> TRUE] @@ TopFile }

CountFields == {"registers", "logicGates"}
CountValues == {2000}
\* values typed into a ratio input, in hundredths: -2.00, 0 and 2.00
DisplayValues == {-200, 0, 200}
\* pointer displacements <<dx, dy>> of a drag
DragMoves == {<<DragStep, 0 - DragStep>>}

\* a rectangle id or a selection: "<id>" or "<id>:internal"; null is NullId
NullId == [id |-> "", internal |-> FALSE]
RectId(rect) == [id |-> rect.id, internal |-> rect.isInternal]
ModuleId(id) == [id |-> id, internal |-> FALSE]

\* ModuleForm.toDisplayAR / fromDisplayAR, on hundredths
toDisplayAR(ratio) ==
    IF ratio = NaN \/ ratio <= 0 THEN Hundredths
    ELSE IF ratio >= Hundredths THEN ratio
    ELSE 0 - ((2 * Hundredths * Hundredths + ratio) \div (2 * ratio))

fromDisplayAR(val) ==
    IF val = 0 THEN Hundredths
    ELSE IF val > 0 THEN val
    ELSE (Hundredths * Hundredths) \div (0 - val)

RECURSIVE IdSeq(_)
RECURSIVE IdSeqOfAll(_)
IdSeqOfAll(children) ==
    IF children = <<>> THEN <<>>
    ELSE IdSeq(Head(children)) \o IdSeqOfAll(Tail(children))

\* the ids of a tree, one entry per node
IdSeq(node) == <<node.id>> \o IdSeqOfAll(node.children)

RECURSIVE AllModules(_)
AllModules(node) ==
    {node} \cup UNION { AllModules(node.children[i]) : i \in DOMAIN node.children }

\* queued React state updates
SetData(fn) == [kind |-> "data", fn |-> fn]
SetSelectedId(vid) == [kind |-> "selectedId", value |-> vid]
SetOverlapMarkers(markers) == [kind |-> "overlapMarkers", value |-> markers]

\* the tree edits: what a setData call, or the same edit made on another
\* tree, does to a tree
UpdateEdit(id, updates) == [op |-> "update", id |-> id, updates |-> updates]
AddEdit(pId, newNode) == [op |-> "add", pId |-> pId, newNode |-> newNode]
ReplaceEdit(tree) == [op |-> "replace", tree |-> tree]

ApplyEdit(tree, e) ==
    CASE e.op = "update" -> updateNodeInTree(tree, e.id, e.updates)
      [] e.op = "add" -> addNodeToParent(tree, e.pId, e.newNode)
      [] e.op = "replace" -> e.tree

ApplyUpdate(st, u) ==
    CASE u.kind = "data" -> [st EXCEPT !.data = ApplyEdit(st.data, u.fn)]
      [] u.kind = "selectedId" -> [st EXCEPT !.selectedId = u.value]
      [] u.kind = "overlapMarkers" -> [st EXCEPT !.overlapMarkers = u.value]

RECURSIVE ApplyAll(_, _)
ApplyAll(st, queue) ==
    IF queue = <<>> THEN st
    ELSE ApplyAll(ApplyUpdate(st, Head(queue)), Tail(queue))

\* handleUpdateNode and handleFullUpdateNode of App
handleUpdateNode(id, updates) ==
    << SetData(UpdateEdit(id, updates)), SetOverlapMarkers(<<>>) >>

handleFullUpdateNode(updatedNode) ==
    << SetData(UpdateEdit(updatedNode.id, updatedNode)), SetOverlapMarkers(<<>>) >>

(***************************************************************************)
(* State                                                                   *)
(***************************************************************************)
VARIABLES
    inp,    \* the module a core function is applied to
    cfg,    \* the TechNodeConfig in use (techNode of App)
    op,     \* which function has been applied
    out,    \* the module organizeChildrenMosaic / optimizeLayoutRecursive returned
    out2,   \* the module a second organizeChildrenMosaic returned
    size,   \* the result of calculatePhysicalSize
    arg,    \* the further argument of a function applied to inp and to it:
            \* a second module, or an id
    res,    \* the results of such an application
    data,             \* App: the authoritative tree, as last rendered
    selectedId,       \* App: the selection, as last rendered
    overlapMarkers,   \* App: the markers shown, as last rendered
    errorMsg,         \* ModuleForm: the message shown
    deepOptimize,     \* ModuleForm: the recursive switch
    pending,          \* state updates queued and not yet rendered
    clock,            \* Date.now()
    currentDragging,  \* AutoLayoutView: the rectangle being dragged, or none
    dragParent,       \* AutoLayoutView: the parent found at drag start, or none
    nodeStart,        \* AutoLayoutView: <<nodeStartX, nodeStartY>>
    raf,              \* AutoLayoutView: the animation-frame callback requested
    edits,            \* number of tree edits issued
    events,           \* number of events handled
    serial            \* history: the tree after the edits issued so far, each
                      \* made on the result of the ones before it

coreVars == <<inp, op, out, out2, size, arg, res>>
argVars == <<arg, res>>
uiVars == <<data, selectedId, overlapMarkers, errorMsg, deepOptimize, pending,
            clock, currentDragging, dragParent, nodeStart, raf, edits, events,
            serial>>
vars == <<inp, cfg, op, out, out2, size, arg, res, data, selectedId, overlapMarkers,
          errorMsg, deepOptimize, pending, clock, currentDragging, dragParent,
          nodeStart, raf, edits, events, serial>>

NoSize == <<>>
NoNode == <<>>
NoError == ""

\* the editor is not in use
UiIdle ==
    /\ data = NoNode
    /\ selectedId = NullId
    /\ overlapMarkers = <<>>
    /\ errorMsg = NoError
    /\ deepOptimize = FALSE
    /\ pending = <<>>
    /\ clock = 0
    /\ currentDragging = <<>>
    /\ dragParent = <<>>
    /\ nodeStart = <<0, 0>>
    /\ raf = <<>>
    /\ edits = 0
    /\ events = 0
    /\ serial = NoNode

\* no core function is being applied
CoreIdle ==
    /\ inp = NoNode
    /\ op = "ui"
    /\ out = NoNode
    /\ out2 = NoNode
    /\ size = NoSize
    /\ arg = NoNode
    /\ res = NoNode

\* a core function is about to be applied to one of `inputs`
InitFrom(inputs, configs) ==
    /\ inp \in inputs
    /\ cfg \in configs
    /\ op = "init"
    /\ out = NoNode
    /\ out2 = NoNode
    /\ size = NoSize
    /\ arg = NoNode
    /\ res = NoNode
    /\ UiIdle

InitCore == InitFrom(InputNodes(MaxChildren), {UnitConfig})

\* the functions applied to childless modules, under two configurations
InitLeaf == InitFrom(LeafInputs, {UnitConfig, TECH_NODES.n7})

\* organizeChildrenMosaic(inp, cfg)
Compact ==
    /\ op = "init"
    /\ out' = organizeChildrenMosaic(inp, cfg)
    /\ op' = "compact"
    /\ UNCHANGED <<inp, cfg, out2, size>>
    /\ UNCHANGED argVars
    /\ UNCHANGED uiVars

\* organizeChildrenMosaic applied to its own result
CompactAgain ==
    /\ op = "compact"
    /\ out2' = organizeChildrenMosaic(out, cfg)
    /\ op' = "compact2"
    /\ UNCHANGED <<inp, cfg, out, size>>
    /\ UNCHANGED argVars
    /\ UNCHANGED uiVars

\* optimizeLayoutRecursive(inp, cfg)
Optimize ==
    /\ op = "init"
    /\ out' = optimizeLayoutRecursive(inp, cfg)
    /\ op' = "optimize"
    /\ UNCHANGED <<inp, cfg, out2, size>>
    /\ UNCHANGED argVars
    /\ UNCHANGED uiVars

\* calculatePhysicalSize(inp, cfg)
Measure ==
    /\ op = "init"
    /\ size' = calculatePhysicalSize(inp, cfg)
    /\ op' = "size"
    /\ UNCHANGED <<inp, cfg, out, out2>>
    /\ UNCHANGED argVars
    /\ UNCHANGED uiVars

NextCore == Compact \/ CompactAgain \/ Optimize \/ Measure

SpecCore == InitCore /\ [][NextCore]_vars

SpecLeaf == InitLeaf /\ [][NextCore]_vars

\* configurations that break the preconditions of the Area Calculator:
\* no or negative utilization, or a negative area per unit
InvalidConfigs ==
    { [UnitConfig EXCEPT !.utilization = 0],
      [UnitConfig EXCEPT !.utilization = -Thousandths],
      [UnitConfig EXCEPT !.dffArea = -Thousandths],
      [UnitConfig EXCEPT !.gateArea = -Thousandths],
      [UnitConfig EXCEPT !.sramAreaPerBit = -Thousandths] }

\* childless modules measured under valid and invalid configurations
InitConfig == InitFrom(LeafInputs, InvalidConfigs \cup {UnitConfig})

SpecConfig == InitConfig /\ [][Measure]_vars

(***************************************************************************)
(* The functions applied to two modules that differ in one field           *)
(***************************************************************************)
ResourceFields == {"registers", "memoryBits", "logicGates"}

\* modules with at most one child, near or far from the local logic
PairInputs ==
    { MkNode("root", r, 0, 0, ix, 0, ar, iar, linked, MkChildren(cs, 1)) :
        r \in {0, 1, BigCount}, ix \in FarCoords, ar \in {25, Hundredths},
        iar \in {Hundredths, 400}, linked \in BOOLEAN, cs \in ChildSeqs(1) }

\* the node with one resource count raised, by one or by BigCount
MoreResources(node) ==
    { [node EXCEPT ![f] = @ + k] : f \in ResourceFields, k \in {1, BigCount} }

\* the node with another stored internalAspectRatio
OtherInternalRatio(node) ==
    { [node EXCEPT !.internalAspectRatio = r] :
        r \in {25, Hundredths, 400} \ {node.internalAspectRatio} }

InitPair ==
    /\ inp \in PairInputs
    /\ cfg \in {UnitConfig}
    /\ arg \in MoreResources(inp) \cup OtherInternalRatio(inp)
    /\ op = "init"
    /\ out = NoNode
    /\ out2 = NoNode
    /\ size = NoSize
    /\ res = NoNode
    /\ UiIdle

\* what one function returned for inp and for arg
Both(ofInp, ofArg) == [of |-> ofInp, ofArg |-> ofArg]

\* the application `name` has returned `results`
Returned(name, results) ==
    /\ op' = name
    /\ res' = results
    /\ UNCHANGED <<inp, cfg, out, out2, size, arg>>
    /\ UNCHANGED uiVars

MeasureBoth ==
    /\ op = "init"
    /\ Returned("pairSize", Both(calculatePhysicalSize(inp, cfg),
                             calculatePhysicalSize(arg, cfg)))

LayoutBoth ==
    /\ op = "init"
    /\ Returned("pairLayout", Both(performLayout(inp, cfg), performLayout(arg, cfg)))

DetectBoth ==
    /\ op = "init"
    /\ Returned("pairOverlaps", Both(checkOverlapsInModule(inp, cfg),
                                 checkOverlapsInModule(arg, cfg)))

CompactBoth ==
    /\ op = "init"
    /\ Returned("pairCompact", Both(organizeChildrenMosaic(inp, cfg),
                                organizeChildrenMosaic(arg, cfg)))

NextPair == MeasureBoth \/ LayoutBoth \/ DetectBoth \/ CompactBoth

SpecPair == InitPair /\ [][NextPair]_vars

(***************************************************************************)
(* Tree edits applied to a tree and an id                                  *)
(***************************************************************************)
\* ids of modules of the input trees, and ids that no tree holds
EditIds == {"root", "a", "a1", "b", "zz"}

\* updates that a caller of updateNodeInTree passes
EditUpdates == { [registers |-> 7], [x |-> CoordStep, y |-> CoordStep],
                 [aspectRatio |-> 25, isRatioLinked |-> FALSE] }

InitEdit ==
    /\ inp \in LayoutInputs(1)
    /\ cfg \in {UnitConfig}
    /\ arg \in EditIds
    /\ op = "init"
    /\ out = NoNode
    /\ out2 = NoNode
    /\ size = NoSize
    /\ res = NoNode
    /\ UiIdle

\* updateNodeInTree(inp, arg, updates)
Update ==
    /\ op = "init"
    /\ \E updates \in EditUpdates : Returned("update", updateNodeInTree(inp, arg, updates))

\* deleteNodeInTree(inp, arg): the tree returned, or nothing for null
Delete ==
    /\ op = "init"
    /\ Returned("delete", deleteNodeInTree(inp, arg))

\* addNodeToParent(inp, arg, newNode)
Add ==
    /\ op = "init"
    /\ Returned("add", addNodeToParent(inp, arg, NewBlock("m_1")))

NextEdit == Update \/ Delete \/ Add

SpecEdit == InitEdit /\ [][NextEdit]_vars

(***************************************************************************)
(* updateNodeInTree applied to a tree, an id and the updates               *)
(***************************************************************************)
\* a complete node carrying `id`, as handleFullUpdateNode passes one
CompleteNode(id) == MkNode(id, 7, CoordStep, CoordStep, 0, CoordStep, 25, 400, FALSE, <<>>)

\* the id and the updates passed: some fields, or a complete node of that id
UpdateArgs ==
    { [id |-> id, updates |-> u] : id \in EditIds, u \in EditUpdates }
        \cup { [id |-> id, updates |-> CompleteNode(id)] : id \in EditIds }

InitUpdate ==
    /\ inp \in GeometryInputs(MaxChildren)
    /\ cfg \in {UnitConfig}
    /\ arg \in UpdateArgs
    /\ op = "init"
    /\ out = NoNode
    /\ out2 = NoNode
    /\ size = NoSize
    /\ res = NoNode
    /\ UiIdle

\* updateNodeInTree(inp, id, updates) as handleUpdateNode calls it
UpdateFields ==
    /\ op = "init"
    /\ "id" \notin DOMAIN arg.updates
    /\ Returned("update", updateNodeInTree(inp, arg.id, arg.updates))

\* updateNodeInTree(inp, updatedNode.id, updatedNode) as handleFullUpdateNode
\* calls it
ReplaceNode ==
    /\ op = "init"
    /\ "id" \in DOMAIN arg.updates
    /\ Returned("replace", updateNodeInTree(inp, arg.updates.id, arg.updates))

NextUpdate == UpdateFields \/ ReplaceNode

SpecUpdate == InitUpdate /\ [][NextUpdate]_vars

(***************************************************************************)
(* Ingestion of a parsed file                                              *)
(***************************************************************************)
\* a field an imported file may leave out: nothing, or the field with one
\* of `values`
Optional(f, values) == {<<>>} \cup { [x \in {f} |-> v] : v \in values }

\* parsed modules: the ratio fields and the link missing, falsy or set, and
\* children from `childOptions`
RawNodes(id, childOptions) ==
    { [id |-> id, name |-> id, registers |-> 1000, memoryBits |-> 0, logicGates |-> 0]
        @@ ar @@ iar @@ linked @@ ch :
        ar \in Optional("aspectRatio", {0, 25}),
        iar \in Optional("internalAspectRatio", {0, 400}),
        linked \in Optional("isRatioLinked", BOOLEAN),
        ch \in childOptions }

\* parsed files of up to three levels
RawFiles ==
    RawNodes("root",
        Optional("children", {<<>>})
        \cup { [children |-> <<c>>] :
                 c \in RawNodes("a", {<<>>}
                          \cup { [children |-> <<g>>] : g \in RawNodes("a1", {<<>>}) }) })

InitIngest ==
    /\ inp \in RawFiles
    /\ cfg \in {UnitConfig}
    /\ arg = NoNode
    /\ op = "init"
    /\ out = NoNode
    /\ out2 = NoNode
    /\ size = NoSize
    /\ res = NoNode
    /\ UiIdle

\* enhanceWithGeometry(inp)
Enhance ==
    /\ op = "init"
    /\ Returned("enhance", enhanceWithGeometry(inp))

SpecIngest == InitIngest /\ [][Enhance]_vars

(***************************************************************************)
(* Detection and drawing of one module                                     *)
(***************************************************************************)
InitGeometry == InitFrom(GeometryInputs(MaxChildren), {UnitConfig})

\* checkOverlapsInModule(inp, cfg)
Detect ==
    /\ op = "init"
    /\ Returned("detect", checkOverlapsInModule(inp, cfg))

\* performLayout(inp, cfg)
Layout ==
    /\ op = "init"
    /\ Returned("layout", performLayout(inp, cfg))

NextGeometry == Detect \/ Layout

SpecGeometry == InitGeometry /\ [][NextGeometry]_vars

\* organizeChildrenMosaic on the same modules
SpecCompact == InitGeometry /\ [][Compact]_vars

(***************************************************************************)
(* The objects of a call                                                   *)
(* The arguments of a core function are objects: every node of the tree,   *)
(* with references to its children, and the config.  A call allocates      *)
(* objects of its own and stores into objects; `heap` maps each reference  *)
(* to the object it names.                                                 *)
(***************************************************************************)
NodeRef == "node"
ConfigRef == "config"
ChildRef(ref, i) == ref \o "." \o ToString(i)

\* a node as an object: its fields, and references to its children
NodeObject(node, ref) ==
    [node EXCEPT !.children = [i \in DOMAIN node.children |-> ChildRef(ref, i)]]

\* the objects of a tree whose root is named ref
RECURSIVE AllocTree(_, _)
RECURSIVE AllocChildren(_, _, _)
AllocChildren(children, ref, i) ==
    IF i > Len(children) THEN <<>>
    ELSE AllocTree(children[i], ChildRef(ref, i)) @@ AllocChildren(children, ref, i + 1)

AllocTree(node, ref) ==
    (ref :> NodeObject(node, ref)) @@ AllocChildren(node.children, ref, 1)

\* the heap a call starts with: its node argument and its config argument
HeapOf(node, config) == AllocTree(node, NodeRef) @@ (ConfigRef :> config)

\* the tree that the object named ref is the root of
RECURSIVE TreeAt(_, _)
TreeAt(heap, ref) ==
    [heap[ref] EXCEPT !.children =
        [i \in DOMAIN heap[ref].children |-> TreeAt(heap, heap[ref].children[i])]]

\* a new object: the objects there already are not touched
Alloc(heap, ref, object) == heap @@ (ref :> object)

\* object.field = value
Store(heap, ref, field, value) ==
    [heap EXCEPT ![ref] = [heap[ref] EXCEPT ![field] = value]]

\* a variant in which the entities of the children are the child objects
\* themselves: entities = [local, ...node.children]
EntityRefShared(scope, nodeRef, i) ==
    IF i = 0 THEN scope \o ".entity.0" ELSE ChildRef(nodeRef, i)

\* the object of entity i (0 for the local logic, then the children): the
\* object literal that entities is built from
EntityRef(scope, nodeRef, i) == scope \o ".entity." \o ToString(i)

EntityObject(e, nodeRef, i) ==
    IF e.isLocal THEN e ELSE [e EXCEPT !.original = ChildRef(nodeRef, i)]

RECURSIVE AllocEntities(_, _, _, _, _)
AllocEntities(heap, scope, nodeRef, entities, i) ==
    IF i > Len(entities) THEN heap
    ELSE AllocEntities(Alloc(heap, EntityRef(scope, nodeRef, i - 1),
                             EntityObject(entities[i], nodeRef, i - 1)),
                       scope, nodeRef, entities, i + 1)

\* the place of an entity in the array as built
IndexOf(entities, e) ==
    CHOOSE i \in DOMAIN entities :
        entities[i].isLocal = e.isLocal /\ entities[i].id = e.id

EntityRefs(scope, nodeRef, entities, order) ==
    [k \in DOMAIN order |-> EntityRef(scope, nodeRef, IndexOf(entities, order[k]) - 1)]

\* entities.forEach(entity => { ...; entity.y = bestY }), resp. entity.x = bestX
RECURSIVE StorePass(_, _, _, _, _, _)
StorePass(heap, scope, nodeRef, entities, swept, field) ==
    IF swept = <<>> THEN heap
    ELSE StorePass(Store(heap, EntityRef(scope, nodeRef, IndexOf(entities, Head(swept)) - 1),
                         field, Head(swept)[field]),
                   scope, nodeRef, entities, Tail(swept), field)

\* entities.sort(...) and the pass that follows it
SortAndSweep(heap, scope, nodeRef, entities, swept, field) ==
    StorePass(Store(heap, scope \o ".entities", "items",
                    EntityRefs(scope, nodeRef, entities, swept)),
              scope, nodeRef, entities, swept, field)

\* steps 1 to 3 of organizeChildrenMosaic
SweepsOnHeap(heap, scope, nodeRef, entities, rows, columns) ==
    SortAndSweep(
        SortAndSweep(
            Alloc(AllocEntities(heap, scope, nodeRef, entities, 1),
                  scope \o ".entities",
                  [items |-> EntityRefs(scope, nodeRef, entities, entities)]),
            scope, nodeRef, entities, rows, "y"),
        scope, nodeRef, entities, columns, "x")

\* what a call of organizeChildrenMosaic on the node named nodeRef does to
\* the heap; the node it returns is a new object
organizeOnHeap(heap, scope, nodeRef, node, config) ==
    IF Len(node.children) = 0
    THEN Alloc(heap, scope \o ".result",
               [LeafResult(node) EXCEPT !.children = heap[nodeRef].children])
    ELSE CHOOSE after \in
             { SweepsOnHeap(before, scope, nodeRef, entities, rows, columns)
                   @@ AllocTree(result, scope \o ".result") :
                 before \in {heap},
                 entities \in {Entities(node, config)},
                 rows \in {VerticalPass(<<>>, ArraySort(Entities(node, config), "yx"))},
                 columns \in {Compacted(Entities(node, config))},
                 result \in {organizeChildrenMosaic(node, config)} } : TRUE

\* optimizeLayoutRecursive: the optimized children and baseNode are new
\* objects, and baseNode is what organizeChildrenMosaic is called on
RECURSIVE optimizeOnHeap(_, _, _, _)
RECURSIVE OptimizeChildrenOnHeap(_, _, _, _, _)
OptimizeChildrenOnHeap(heap, scope, children, config, i) ==
    IF i > Len(children) THEN heap
    ELSE OptimizeChildrenOnHeap(optimizeOnHeap(heap, ChildRef(scope, i), children[i], config),
                                scope, children, config, i + 1)

BaseNodeOnHeap(heap, scope, baseNode, config) ==
    organizeOnHeap(heap @@ AllocTree(baseNode, scope \o ".base"),
                   scope, scope \o ".base", baseNode, config)

optimizeOnHeap(heap, scope, node, config) ==
    CHOOSE after \in
        { BaseNodeOnHeap(before, scope, [node EXCEPT !.children = optimizedChildren], config) :
            before \in {OptimizeChildrenOnHeap(heap, scope, node.children, config, 1)},
            optimizedChildren \in {OptimizedChildren(node.children, config)} } : TRUE

\* a call has returned and left the heap so
Left(name, heap) == Returned(name, heap)

CallCalculatePhysicalSize ==
    /\ op = "init"
    /\ Left("calculatePhysicalSize",
            Alloc(HeapOf(inp, cfg), "size.result", calculatePhysicalSize(inp, cfg)))

CallPerformLayout ==
    /\ op = "init"
    /\ Left("performLayout",
            Alloc(HeapOf(inp, cfg), "layout.result", performLayout(inp, cfg)))

CallCheckOverlaps ==
    /\ op = "init"
    /\ Left("checkOverlapsInModule",
            Alloc(HeapOf(inp, cfg), "overlaps.result",
                  [items |-> checkOverlapsInModule(inp, cfg)]))

CallOrganize ==
    /\ op = "init"
    /\ Left("organizeChildrenMosaic",
            organizeOnHeap(HeapOf(inp, cfg), "organize", NodeRef, inp, cfg))

CallOptimize ==
    /\ op = "init"
    /\ Left("optimizeLayoutRecursive", optimizeOnHeap(HeapOf(inp, cfg), "optimize", inp, cfg))

CallUpdate ==
    /\ op = "init"
    /\ \E id \in EditIds :
          Left("updateNodeInTree",
               HeapOf(inp, cfg)
                   @@ AllocTree(updateNodeInTree(inp, id, [x |-> CoordStep, y |-> CoordStep]),
                                "update.result"))

CallDelete ==
    /\ op = "init"
    /\ \E id \in EditIds \ {"root"} :
          Left("deleteNodeInTree",
               HeapOf(inp, cfg) @@ AllocTree(deleteNodeInTree(inp, id)[1], "delete.result"))

CallAdd ==
    /\ op = "init"
    /\ \E pId \in EditIds :
          Left("addNodeToParent",
               HeapOf(inp, cfg)
                   @@ AllocTree(addNodeToParent(inp, pId, NewBlock("m_1")), "add.result"))

NextHeap ==
    \/ CallCalculatePhysicalSize
    \/ CallPerformLayout
    \/ CallCheckOverlaps
    \/ CallOrganize
    \/ CallOptimize
    \/ CallUpdate
    \/ CallDelete
    \/ CallAdd

SpecHeap == InitGeometry /\ [][NextHeap]_vars

(***************************************************************************)
(* Properties of the core functions, checked under SpecCore                *)
(***************************************************************************)
\* the width and height of every entity of a module, by entity id
EntitySizes(node, config) ==
    LET entities == Entities(node, config)
    IN  { <<entities[i].id, entities[i].w, entities[i].h>> : i \in DOMAIN entities }

\* C1: for every module with at least one child, checkOverlapsInModule on
\* the module organizeChildrenMosaic returns is empty: no pair among the
\* local-logic block and the direct children overlaps in both x and y.
C1_CompactionOverlapFree ==
    (op = "compact" /\ Len(inp.children) >= 1)
        => checkOverlapsInModule(out, cfg) = <<>>

\* C3: organizeChildrenMosaic applied to its own result returns that result,
\* equal in every field.
C3_CompactionIdempotent ==
    op = "compact2" => out2 = out

\* C4: every entity of a compacted module (the local-logic block and each
\* direct child) has the width and height in the returned module that it
\* has in the input module; only positions differ.
C4_ShapePreserving ==
    (op = "compact" /\ Len(inp.children) >= 1)
        => EntitySizes(out, cfg) = EntitySizes(inp, cfg)

\* C5: every module of the tree optimizeLayoutRecursive returns, the node
\* and all its descendants, is free of overlaps.
C5_OptimizedTreeOverlapFree ==
    op = "optimize"
        => \A m \in AllModules(out) : checkOverlapsInModule(m, cfg) = <<>>

\* C6: organizeChildrenMosaic on a node with no children returns the input
\* with internalX = 0 and internalY = 0 and every other field unchanged
\* (checked under SpecLeaf).
C6_LeafStability ==
    (op = "compact" /\ Len(inp.children) = 0)
        => out = [inp EXCEPT !.internalX = 0, !.internalY = 0]

\* a childless node whose local logic lay away from the origin, and whose
\* internal ratio is its own, has been compacted
C6_LeafCompacted ==
    /\ op = "compact"
    /\ Len(inp.children) = 0
    /\ inp.internalX > 0
    /\ inp.internalY > 0
    /\ inp.registers > 0
    /\ inp.internalAspectRatio # Hundredths
    /\ out.internalX = 0

\* C10: calculatePhysicalSize returns calculatedWidth >= idealWidth and
\* calculatedHeight >= idealHeight, and both are equalities exactly when
\* aspectRatio lies in [minFeasibleRatio, maxFeasibleRatio]; stated for
\* nodes whose content area is positive.
C10_EnvelopeDominance ==
    (op = "size" /\ fGT(fAdd(size.stats.localArea, size.stats.childrenArea), 0))
        => LET stats == size.stats
           IN  /\ stats.calculatedWidth >= stats.idealWidth
               /\ stats.calculatedHeight >= stats.idealHeight
               /\ (/\ stats.calculatedWidth = stats.idealWidth
                   /\ stats.calculatedHeight = stats.idealHeight)
                  <=> (/\ stats.minFeasibleRatio <= inp.aspectRatio
                       /\ inp.aspectRatio <= stats.maxFeasibleRatio)

\* arg is inp with one resource count raised by at least `least`
RaisedBy(least) ==
    \E f \in ResourceFields :
        /\ arg[f] >= inp[f] + least
        /\ [arg EXCEPT ![f] = inp[f]] = inp

\* C11, as stated: raising one of registers, memoryBits or logicGates, all
\* else fixed, strictly increases the totalArea calculatePhysicalSize
\* returns; stated for a count raised by BigCount.
C11_AreaStrictlyMonotone ==
    (op = "pairSize" /\ RaisedBy(BigCount))
        => res.ofArg.stats.totalArea > res.of.stats.totalArea

\* C11, amended: raising one of registers, memoryBits or logicGates, all
\* else fixed, never decreases the totalArea calculatePhysicalSize returns.
C11_AreaMonotone ==
    (op = "pairSize" /\ RaisedBy(1))
        => res.ofArg.stats.totalArea >= res.of.stats.totalArea

\* a module with a child has been measured with and without BigCount more
\* registers, and the larger count gave the larger area
C11_AreaGrew ==
    /\ op = "pairSize"
    /\ Len(inp.children) = 1
    /\ arg.registers = inp.registers + BigCount
    /\ res.ofArg.stats.totalArea > res.of.stats.totalArea

\* inp is linked, and arg is inp with another stored internalAspectRatio
LinkedAndStale ==
    /\ inp.isRatioLinked
    /\ arg.internalAspectRatio # inp.internalAspectRatio
    /\ [arg EXCEPT !.internalAspectRatio = inp.internalAspectRatio] = inp

\* a rectangle of performLayout without the node it was drawn for
Drawn(rect) ==
    [id |-> rect.id, parentId |-> rect.parentId, name |-> rect.name,
     isInternal |-> rect.isInternal,
     x |-> rect.x, y |-> rect.y, w |-> rect.w, h |-> rect.h]

\* the rectangles of a layout, in order
DrawnRects(layout) == [i \in DOMAIN layout.rects |-> Drawn(layout.rects[i])]

\* a module without its stored internalAspectRatio
Unstored(node) == [node EXCEPT !.internalAspectRatio = 0]

\* C12: for a node with isRatioLinked = true, calculatePhysicalSize,
\* performLayout, checkOverlapsInModule and organizeChildrenMosaic do not
\* depend on the stored internalAspectRatio: two nodes that differ only in
\* that field get the same size result, the same rectangles and root
\* extent, the same overlap markers, and compacted modules that differ in
\* nothing but the stored field itself.
C12_LinkedIgnoresStoredRatio ==
    LinkedAndStale =>
        /\ op = "pairSize" => res.ofArg = res.of
        /\ op = "pairOverlaps" => res.ofArg = res.of
        /\ op = "pairLayout" =>
               /\ DrawnRects(res.ofArg) = DrawnRects(res.of)
               /\ res.ofArg.rootW = res.of.rootW
               /\ res.ofArg.rootH = res.of.rootH
        /\ op = "pairCompact" => Unstored(res.ofArg) = Unstored(res.of)

\* a linked module of ratio 0.25 with local logic and a child, stored with
\* two different internal ratios, has been laid out, and its local-logic
\* rectangle has the ratio 0.25 in both layouts
C12_LinkedPairLaidOut ==
    /\ op = "pairLayout"
    /\ LinkedAndStale
    /\ inp.aspectRatio = 25
    /\ inp.registers = BigCount
    /\ Len(inp.children) = 1
    /\ ToFixed2(res.of.rects[2].w, res.of.rects[2].h) = 25
    /\ ToFixed2(res.ofArg.rects[2].w, res.ofArg.rects[2].h) = 25

\* the rectangle of an entity of a module, by id: the local logic
\* ("internal") at its stored position, a direct child at its own
EntityRect(node, config, id) ==
    IF id = "internal"
    THEN LET local == LocalSize(node, config)
         IN  [x |-> node.internalX, y |-> node.internalY, w |-> local.w, h |-> local.h]
    ELSE LET i == CHOOSE k \in DOMAIN node.children : node.children[k].id = id
             child == calculatePhysicalSize(node.children[i], config)
         IN  [x |-> node.children[i].x, y |-> node.children[i].y, w |-> child.w, h |-> child.h]

\* the ids of the entities, in the order local logic, then children
EntityIds(node) == <<"internal">> \o [i \in DOMAIN node.children |-> node.children[i].id]

Least(a, b) == IF a < b THEN a ELSE b
Most(a, b) == IF a > b THEN a ELSE b

\* the intersection of two rectangles; w or h is <= 0 when they are apart
\* or only touch
Intersection(a, b) ==
    [x |-> Most(a.x, b.x), y |-> Most(a.y, b.y),
     w |-> Least(a.x + a.w, b.x + b.w) - Most(a.x, b.x),
     h |-> Least(a.y + a.h, b.y + b.h) - Most(a.y, b.y)]

\* one marker for every pair of rectangles whose intersection has an area;
\* rects[i] is the rectangle of the entity ids[i]
IntersectionsAmong(ids, rects) ==
    { [x |-> Intersection(rects[p[1]], rects[p[2]]).x,
       y |-> Intersection(rects[p[1]], rects[p[2]]).y,
       w |-> Intersection(rects[p[1]], rects[p[2]]).w,
       h |-> Intersection(rects[p[1]], rects[p[2]]).h,
       ids |-> <<ids[p[1]], ids[p[2]]>>] :
      p \in { q \in (DOMAIN ids) \X (DOMAIN ids) :
                 /\ q[1] < q[2]
                 /\ Intersection(rects[q[1]], rects[q[2]]).w > 0
                 /\ Intersection(rects[q[1]], rects[q[2]]).h > 0 } }

\* the markers due for a module: over its local logic and direct children
IntersectingPairs(node, config) ==
    IntersectionsAmong(EntityIds(node),
        [i \in DOMAIN EntityIds(node) |-> EntityRect(node, config, EntityIds(node)[i])])

\* the sequence `markers` holds each of `expected` once, and nothing else
ExactlyOnce(markers, expected) ==
    /\ { markers[k] : k \in DOMAIN markers } = expected
    /\ Len(markers) = Cardinality(expected)

\* C13: checkOverlapsInModule returns exactly one marker for each unordered
\* pair among the local-logic block and the direct children whose x-overlap
\* and y-overlap are both > 0, and none for any other pair (touching edges
\* and descendants give none); the marker's rectangle is the intersection
\* of the two and its ids name them, 'internal' for the local logic.
C13_MarkersAreIntersections ==
    op = "detect" => ExactlyOnce(res, IntersectingPairs(inp, cfg))

\* the 100 x 100 local logic at (0, 0) and a 100 x 100 child at (50, 50):
\* one marker, the 50 x 50 intersection at (50, 50)
C13_HalfOverlapDetected ==
    /\ op = "detect"
    /\ inp.registers = BigCount /\ inp.aspectRatio = Hundredths
    /\ inp.internalX = 0 /\ inp.internalY = 0
    /\ Len(inp.children) = 1
    /\ inp.children[1].registers = 832
    /\ inp.children[1].x = 50 /\ inp.children[1].y = 50
    /\ res = << [x |-> 50, y |-> 50, w |-> 50, h |-> 50, ids |-> <<"internal", "a">>] >>

\* C14: for an id that no module of the tree has, updateNodeInTree,
\* deleteNodeInTree and addNodeToParent each return a tree equal to the
\* input (deleteNodeInTree a tree, not null).
C14_UnknownIdIsNoOp ==
    findModuleById(inp, arg) = <<>> =>
        /\ op = "update" => res = inp
        /\ op = "delete" => res = <<inp>>
        /\ op = "add" => res = inp

\* a tree of three modules has gone through deleteNodeInTree with an id
\* none of them has, and came back whole
C14_NothingDeleted ==
    /\ op = "delete"
    /\ arg = "zz"
    /\ Len(inp.children) = 1
    /\ Len(inp.children[1].children) = 1
    /\ res = <<inp>>

\* C15: for a node whose total content area is 0 (no registers, memory
\* bits or logic gates and no children), calculatePhysicalSize returns
\* width 0 and height 0, and a minFeasibleRatio and maxFeasibleRatio that
\* are finite numbers (checked under SpecLeaf).
C15_EmptyNodeIsDegenerate ==
    (/\ op = "size"
     /\ inp.registers = 0 /\ inp.memoryBits = 0 /\ inp.logicGates = 0
     /\ Len(inp.children) = 0)
        => /\ size.w = 0
           /\ size.h = 0
           /\ IsFinite(size.stats.minFeasibleRatio)
           /\ IsFinite(size.stats.maxFeasibleRatio)

\* utilization > 0 and no negative area per unit
ValidConfig(config) ==
    /\ config.utilization > 0
    /\ config.dffArea >= 0
    /\ config.gateArea >= 0
    /\ config.sramAreaPerBit >= 0

\* C16: calculatePhysicalSize called with an invalid configuration
\* (utilization <= 0, or a negative dffArea, gateArea or sramAreaPerBit)
\* yields an error outcome, not a size result (checked under SpecConfig).
C16_InvalidConfigRejected ==
    (op = "size" /\ ~ValidConfig(cfg)) => "error" \in DOMAIN size

\* the container rectangle a rectangle of a layout is drawn in: the one of
\* the module its parentId names
ContainerOf(rects, rect) ==
    rects[CHOOSE k \in DOMAIN rects :
              rects[k].id = rect.parentId /\ ~rects[k].isInternal]

\* the rectangles of a layout other than the root's container
ContentRects(rects) == { rects[k] : k \in 2..Len(rects) }

\* rect lies in the content area of container: right of the margin, below
\* the header, and left of and above the far margins
InsideContent(rect, container) ==
    /\ rect.x >= container.x + GLOBAL_MARGIN
    /\ rect.y >= container.y + GLOBAL_HEADER
    /\ rect.x + rect.w <= container.x + container.w - GLOBAL_MARGIN
    /\ rect.y + rect.h <= container.y + container.h - GLOBAL_MARGIN

\* C17: the footprint never clips placed content: for modules whose
\* internalX, internalY and children's x and y are >= 0, every local-logic
\* rectangle and every child container of a layout lies inside the
\* container of its module, offset by (24, 36) and clear of the far
\* margins (the container is at least maxContentX + 48 wide and
\* maxContentY + 84 high).
C17_FootprintHoldsContent ==
    op = "layout" =>
        \A rect \in ContentRects(res.rects) :
            InsideContent(rect, ContainerOf(res.rects, rect))

\* a module with two children has been laid out, its local logic away from
\* the origin, and one child reaches the far margin of the root container
C17_ContentReachesMargin ==
    /\ op = "layout"
    /\ Len(inp.children) = 2
    /\ inp.internalX > 0
    /\ \E rect \in ContentRects(res.rects) :
           /\ rect.parentId = "root"
           /\ ~rect.isInternal
           /\ rect.x + rect.w = res.rects[1].w - GLOBAL_MARGIN

\* the largest right edge and the largest bottom edge over the local-logic
\* block and the direct children of a module, at their stored positions
ContentExtent(node, config) ==
    LET blocks == Blocks(node, config)
        RightOf(i) == blocks[i].x + blocks[i].w
        BottomOf(i) == blocks[i].y + blocks[i].h
    IN  [ maxX |-> CHOOSE r \in { RightOf(i) : i \in DOMAIN blocks } :
                       \A i \in DOMAIN blocks : RightOf(i) <= r,
          maxY |-> CHOOSE b \in { BottomOf(i) : i \in DOMAIN blocks } :
                       \A i \in DOMAIN blocks : BottomOf(i) <= b ]

\* C18: compaction never enlarges the content bounding envelope: for a
\* module with children, the largest right edge and the largest bottom edge
\* over the local-logic block and the direct children after
\* organizeChildrenMosaic are each no larger than over the input positions
\* (checked under SpecCompact).
C18_EnvelopeNeverGrows ==
    (op = "compact" /\ Len(inp.children) >= 1)
        => /\ ContentExtent(out, cfg).maxX <= ContentExtent(inp, cfg).maxX
           /\ ContentExtent(out, cfg).maxY <= ContentExtent(inp, cfg).maxY

\* the children of a parsed module, none when the field is missing
RawChildren(raw) == IF "children" \in DOMAIN raw THEN raw.children ELSE <<>>

\* node carries the defaults for the parsed module raw, and so does every
\* descendant
RECURSIVE Defaulted(_, _)
Defaulted(raw, node) ==
    /\ ("aspectRatio" \notin DOMAIN raw \/ raw.aspectRatio = 0)
           => node.aspectRatio = Hundredths
    /\ "internalAspectRatio" \notin DOMAIN raw
           => node.internalAspectRatio = node.aspectRatio
    /\ "isRatioLinked" \notin DOMAIN raw
           => node.isRatioLinked = (Len(RawChildren(raw)) = 0)
    /\ "isRatioLinked" \in DOMAIN raw
           => node.isRatioLinked = raw.isRatioLinked
    /\ Len(node.children) = Len(RawChildren(raw))
    /\ \A i \in DOMAIN node.children : Defaulted(RawChildren(raw)[i], node.children[i])

\* C19: enhanceWithGeometry sets aspectRatio to 1.0 when it is missing or
\* zero, internalAspectRatio to the node's aspectRatio when it is missing,
\* and isRatioLinked, when it is missing, to true for a node without
\* children and to false for a node with at least one child; an
\* isRatioLinked that is present is kept; and this holds for every
\* descendant.
C19_IngestionDefaults ==
    op = "enhance" => Defaulted(inp, res)

\* a file of three levels has been ingested: the root and its child leave
\* out the link and get false, the grandchild leaves it out and gets true,
\* and the child's zero aspectRatio has become 1.0, for its missing
\* internalAspectRatio too
C19_ThreeLevelsDefaulted ==
    /\ op = "enhance"
    /\ "isRatioLinked" \notin DOMAIN inp
    /\ Len(RawChildren(inp)) = 1
    /\ "isRatioLinked" \notin DOMAIN inp.children[1]
    /\ "internalAspectRatio" \notin DOMAIN inp.children[1]
    /\ "aspectRatio" \in DOMAIN inp.children[1]
    /\ inp.children[1].aspectRatio = 0
    /\ Len(RawChildren(inp.children[1])) = 1
    /\ "isRatioLinked" \notin DOMAIN inp.children[1].children[1]
    /\ ~res.isRatioLinked
    /\ ~res.children[1].isRatioLinked
    /\ res.children[1].aspectRatio = Hundredths
    /\ res.children[1].internalAspectRatio = Hundredths
    /\ res.children[1].children[1].isRatioLinked

\* where the rectangles of a module and its descendants belong when the
\* module's container has its origin at (originX, originY): the container,
\* the local logic, then each child in turn
RECURSIVE Placed(_, _, _)
RECURSIVE PlacedAll(_, _, _)
PlacedAll(children, originX, originY) ==
    IF children = <<>> THEN <<>>
    ELSE Placed(Head(children),
                originX + GLOBAL_MARGIN + Head(children).x,
                originY + GLOBAL_HEADER + Head(children).y)
         \o PlacedAll(Tail(children), originX, originY)

Placed(node, originX, originY) ==
    << [id |-> node.id, isInternal |-> FALSE, x |-> originX, y |-> originY],
       [id |-> node.id, isInternal |-> TRUE,
        x |-> originX + GLOBAL_MARGIN + node.internalX,
        y |-> originY + GLOBAL_HEADER + node.internalY] >>
    \o PlacedAll(node.children, originX, originY)

\* which module each rectangle of a layout is for, and where it is
Positions(rects) ==
    [i \in DOMAIN rects |-> [id |-> rects[i].id, isInternal |-> rects[i].isInternal,
                             x |-> rects[i].x, y |-> rects[i].y]]

\* C20: performLayout emits exactly two rectangles per module of the tree,
\* depth-first: a container, its local-logic rectangle, then its
\* children's; the root container is at (0, 0) whatever the root's stored
\* x and y, a child's container at its parent's origin + (24 + child.x,
\* 36 + child.y), a local-logic rectangle at its container's origin +
\* (24 + internalX, 36 + internalY); rootW and rootH are the root
\* container's w and h.
C20_LayoutOrderAndOrigins ==
    op = "layout" =>
        /\ Positions(res.rects) = Placed(inp, 0, 0)
        /\ Len(res.rects) = 2 * Len(IdSeq(inp))
        /\ res.rootW = res.rects[1].w
        /\ res.rootH = res.rects[1].h

\* a root stored away from the origin, with a child at (50, 50) that has a
\* child of its own, has been laid out in six rectangles: the root's
\* container at (0, 0), the child's at (74, 86), the grandchild's at (98, 122)
C20_NestedLayoutDrawn ==
    /\ op = "layout"
    /\ inp.x = CoordStep /\ inp.y = CoordStep
    /\ Len(inp.children) = 1
    /\ inp.children[1].x = 50 /\ inp.children[1].y = 50
    /\ Len(inp.children[1].children) = 1
    /\ Len(res.rects) = 6
    /\ res.rects[1].x = 0 /\ res.rects[1].y = 0
    /\ res.rects[3].x = 74 /\ res.rects[3].y = 86
    /\ res.rects[5].x = 98 /\ res.rects[5].y = 122

\* a child without its position
Unplaced(child) == [child EXCEPT !.x = 0, !.y = 0]

\* the children of a module, each without its position
UnplacedChildren(node) == { Unplaced(node.children[i]) : i \in DOMAIN node.children }

\* C21: organizeChildrenMosaic on a module with children returns a module
\* with the same id, name, x, y, isRatioLinked and resource counts, and
\* with the same direct children, none dropped and none duplicated, each
\* equal to its input version (subtree included) except for its x and y.
C21_CompactionFrame ==
    (op = "compact" /\ Len(inp.children) >= 1)
        => /\ out.id = inp.id /\ out.name = inp.name
           /\ out.x = inp.x /\ out.y = inp.y
           /\ out.isRatioLinked = inp.isRatioLinked
           /\ out.registers = inp.registers
           /\ out.memoryBits = inp.memoryBits
           /\ out.logicGates = inp.logicGates
           /\ Len(out.children) = Len(inp.children)
           /\ UnplacedChildren(out) = UnplacedChildren(inp)
           /\ \A i, j \in DOMAIN out.children :
                  i # j => out.children[i].id # out.children[j].id

\* a module with two children, one of them with a child of its own and its
\* local logic away from its origin, has been compacted, and that child
\* was moved
C21_NestedChildMoved ==
    /\ op = "compact"
    /\ Len(inp.children) = 2
    /\ \E i, j \in 1..2 :
           /\ Len(inp.children[i].children) = 1
           /\ inp.children[i].internalX > 0
           /\ out.children[j].id = inp.children[i].id
           /\ out.children[j].y # inp.children[i].y
           /\ Unplaced(out.children[j]) = Unplaced(inp.children[i])

\* the functions of the core
CoreFunctions ==
    {"calculatePhysicalSize", "performLayout", "checkOverlapsInModule",
     "organizeChildrenMosaic", "optimizeLayoutRecursive", "updateNodeInTree",
     "deleteNodeInTree", "addNodeToParent"}

\* C22: when a function of the core has returned, the tree it was given
\* (every node's fields and the order of its children) and the config it
\* was given are as they were before the call.
C22_InputsUntouched ==
    op \in CoreFunctions
        => /\ TreeAt(res, NodeRef) = inp
           /\ res[ConfigRef] = cfg
           /\ \A ref \in DOMAIN HeapOf(inp, cfg) : res[ref] = HeapOf(inp, cfg)[ref]

\* organizeChildrenMosaic has moved the entity of the second of two
\* children, and that child is where it was
C22_EntityMovedChildKept ==
    /\ op = "organizeChildrenMosaic"
    /\ Len(inp.children) = 2
    /\ res["organize.entity.2"].original = "node.2"
    /\ res["organize.entity.2"].y # inp.children[2].y
    /\ res["node.2"].y = inp.children[2].y
    /\ TreeAt(res, "organize.result").children[2].y = res["organize.entity.2"].y

\* the entity of a module's child, by the child's id: where it is and how
\* large
ChildRect(node, config, id) == EntityRect(node, config, id)

\* b lies at least the gap below a, or at least the gap to its right
SeparatedFrom(a, b) ==
    \/ b.y >= a.y + a.h + INTER_MODULE_GAP
    \/ b.x >= a.x + a.w + INTER_MODULE_GAP

\* C23: for a module whose two children overlap, after
\* organizeChildrenMosaic one of the two lies at least the 16-unit gap
\* below or to the right of the other, and checkOverlapsInModule on the
\* result is empty.
C23_OverlappingChildrenSeparated ==
    (/\ op = "compact"
     /\ Len(inp.children) = 2
     /\ \E k \in DOMAIN checkOverlapsInModule(inp, cfg) :
            checkOverlapsInModule(inp, cfg)[k].ids = <<"a", "b">>)
        => /\ \/ SeparatedFrom(ChildRect(out, cfg, "a"), ChildRect(out, cfg, "b"))
              \/ SeparatedFrom(ChildRect(out, cfg, "b"), ChildRect(out, cfg, "a"))
           /\ checkOverlapsInModule(out, cfg) = <<>>

\* the tree with the module `id` cut out: what lies outside that module
RECURSIVE Outside(_, _)
Outside(node, id) ==
    IF node.id = id THEN [id |-> id]
    ELSE [node EXCEPT !.children = [i \in DOMAIN node.children |-> Outside(node.children[i], id)]]

\* `after` has every field of `updates` as given there and every other
\* field as `before` has it
MergedOver(before, updates, after) ==
    /\ DOMAIN after = DOMAIN before \cup DOMAIN updates
    /\ \A f \in DOMAIN after :
           after[f] = IF f \in DOMAIN updates THEN updates[f] ELSE before[f]

\* C24: updateNodeInTree(root, id, updates) with id present in a tree of
\* unique ids returns a tree in which the module of that id has the updates
\* merged over its previous fields and everything outside that module
\* (ancestors, siblings, their order and subtrees) is as in the input; a
\* complete node passed as the updates takes the module's place.
C24_UpdateFrame ==
    (op \in {"update", "replace"} /\ findModuleById(inp, arg.id) # <<>>)
        => /\ findModuleById(res, arg.id) # <<>>
           /\ MergedOver(findModuleById(inp, arg.id)[1], arg.updates,
                         findModuleById(res, arg.id)[1])
           /\ Outside(res, arg.id) = Outside(inp, arg.id)
           /\ op = "replace" => findModuleById(res, arg.id) = <<arg.updates>>

\* the grandchild a1 of a tree with two children has had its position
\* updated: it moved, and its parent and its uncle are as before
C24_GrandchildUpdated ==
    /\ op = "update"
    /\ arg.id = "a1"
    /\ "x" \in DOMAIN arg.updates
    /\ Len(inp.children) = 2
    /\ Len(inp.children[1].children) = 1
    /\ inp.children[1].children[1].x # arg.updates.x
    /\ res.children[1].children[1].x = arg.updates.x
    /\ res.children[1].children[1].registers = inp.children[1].children[1].registers
    /\ res.children[2] = inp.children[2]

\* every position and size of the entities is a finite number
FiniteEntities(entities) ==
    \A i \in DOMAIN entities :
        /\ IsFinite(entities[i].x) /\ IsFinite(entities[i].y)
        /\ IsFinite(entities[i].w) /\ IsFinite(entities[i].h)

\* the spans of a and b along x (resp. y) share more than a point
SpansOverlapX(a, b) == fGT(fMin(fAdd(a.x, a.w), fAdd(b.x, b.w)), fMax(a.x, b.x))
SpansOverlapY(a, b) == fGT(fMin(fAdd(a.y, a.h), fAdd(b.y, b.h)), fMax(a.y, b.y))

\* the largest of a non-empty set of finite numbers
Largest(S) == CHOOSE m \in S : \A n \in S : n <= m

\* the gap past the bottom (resp. right) edge of the furthest of the
\* entities processed earlier whose span overlaps the entity's, or 0
RestingY(entity, earlier) ==
    LET under == { k \in DOMAIN earlier : SpansOverlapX(entity, earlier[k]) }
    IN  IF under = {} THEN 0
        ELSE Largest({ earlier[k].y + earlier[k].h + INTER_MODULE_GAP : k \in under })

RestingX(entity, earlier) ==
    LET beside == { k \in DOMAIN earlier : SpansOverlapY(entity, earlier[k]) }
    IN  IF beside = {} THEN 0
        ELSE Largest({ earlier[k].x + earlier[k].w + INTER_MODULE_GAP : k \in beside })

\* every entity of `swept`, the result of a pass over `sorted`, rests on
\* the entities before it
RestsVertically(sorted, swept) ==
    \A i \in DOMAIN sorted : swept[i].y = RestingY(sorted[i], SubSeq(swept, 1, i - 1))

RestsHorizontally(sorted, swept) ==
    \A i \in DOMAIN sorted : swept[i].x = RestingX(sorted[i], SubSeq(swept, 1, i - 1))

SweepRule(byRow, rows, byColumn, columns) ==
    /\ RestsVertically(byRow, rows)
    /\ RestsHorizontally(byColumn, columns)

\* C25: in the vertical pass, over the entities in ascending (y, x) order,
\* each entity's y becomes the largest earlier.y + earlier.h + 16 over the
\* entities processed before it whose x-span overlaps its own by any
\* positive amount, or 0 when there is none; the horizontal pass does the
\* same on x over the entities sorted again by (x, y), with y-span overlap.
C25_SweepRule ==
    (op = "compact" /\ Len(inp.children) >= 1 /\ FiniteEntities(Entities(inp, cfg)))
        => SweepRule(ArraySort(Entities(inp, cfg), "yx"),
                     VerticalPass(<<>>, ArraySort(Entities(inp, cfg), "yx")),
                     ArraySort(VerticalPass(<<>>, ArraySort(Entities(inp, cfg), "yx")), "xy"),
                     Compacted(Entities(inp, cfg)))

\* the right (resp. bottom) edges of the local-logic block, of the size it had
\* during the compaction, and of the children, as the result positions them
RightEdges(before, after, config) ==
    { after.internalX + LocalSize(before, config).w }
        \cup { after.children[i].x + calculatePhysicalSize(after.children[i], config).w :
                  i \in DOMAIN after.children }

BottomEdges(before, after, config) ==
    { after.internalY + LocalSize(before, config).h }
        \cup { after.children[i].y + calculatePhysicalSize(after.children[i], config).h :
                  i \in DOMAIN after.children }

\* ratio, in hundredths, is num / den rounded to two decimals
RoundsTo(ratio, num, den) ==
    /\ (2 * ratio - 1) * den <= 2 * Hundredths * num
    /\ 2 * Hundredths * num < (2 * ratio + 1) * den

\* C26: after organizeChildrenMosaic on a module with children, aspectRatio
\* is (maxX + 48) / (maxY + 84) rounded to two decimals, maxX and maxY being
\* the largest right and bottom edges over the repositioned local-logic block
\* and children; internalAspectRatio is that same value when isRatioLinked
\* holds and is the input's otherwise.
C26_RatioWriteBack ==
    (op = "compact" /\ Len(inp.children) >= 1)
        => /\ RoundsTo(out.aspectRatio,
                       Largest(RightEdges(inp, out, cfg)) + 2 * GLOBAL_MARGIN,
                       Largest(BottomEdges(inp, out, cfg)) + 2 * GLOBAL_MARGIN + GLOBAL_HEADER)
           /\ inp.isRatioLinked => out.internalAspectRatio = out.aspectRatio
           /\ ~inp.isRatioLinked => out.internalAspectRatio = inp.internalAspectRatio

\* a module with linked ratios and two children came out of the compaction
\* with another ratio than it had, written to both ratio fields
C26_LinkedRatioRewritten ==
    /\ op = "compact"
    /\ Len(inp.children) = 2
    /\ inp.isRatioLinked
    /\ out.aspectRatio # inp.aspectRatio
    /\ out.internalAspectRatio = out.aspectRatio
    /\ out.internalAspectRatio # inp.internalAspectRatio

\* the local-logic block, of the size it had during the compaction, and the
\* children, as the result positions them
Arranged(before, after, config) ==
    << [x |-> after.internalX, y |-> after.internalY,
        w |-> LocalSize(before, config).w, h |-> LocalSize(before, config).h] >>
    \o [i \in DOMAIN after.children |->
            [x |-> after.children[i].x, y |-> after.children[i].y,
             w |-> calculatePhysicalSize(after.children[i], config).w,
             h |-> calculatePhysicalSize(after.children[i], config).h]]

\* some entity lies on each axis, and every entity lies on an axis or the
\* gap past the bottom (resp. right) edge of another
Anchored(rects) ==
    /\ \E i \in DOMAIN rects : rects[i].y = 0
    /\ \E i \in DOMAIN rects : rects[i].x = 0
    /\ \A i \in DOMAIN rects :
           \/ rects[i].y = 0
           \/ \E j \in DOMAIN rects \ {i} :
                  rects[i].y = rects[j].y + rects[j].h + INTER_MODULE_GAP
    /\ \A i \in DOMAIN rects :
           \/ rects[i].x = 0
           \/ \E j \in DOMAIN rects \ {i} :
                  rects[i].x = rects[j].x + rects[j].w + INTER_MODULE_GAP

\* C29: after organizeChildrenMosaic on a module with children, among the
\* local-logic block and the direct children at least one entity has y = 0
\* and at least one has x = 0, and every entity's y (resp. x) is 0 or
\* exactly 16 past the bottom (resp. right) edge of another entity.
C29_AnchoredAtOrigin ==
    (op = "compact" /\ Len(inp.children) >= 1) => Anchored(Arranged(inp, out, cfg))

\* three entities came out of the compaction stacked: one at y = 0, one the
\* gap below it, and one the gap below that
C29_StackOfThree ==
    /\ op = "compact"
    /\ Len(inp.children) = 2
    /\ \E i, j, k \in 1..3 :
           /\ Arranged(inp, out, cfg)[i].y = 0
           /\ Arranged(inp, out, cfg)[i].h > 0
           /\ Arranged(inp, out, cfg)[j].y = Arranged(inp, out, cfg)[i].h + INTER_MODULE_GAP
           /\ Arranged(inp, out, cfg)[k].y =
                  Arranged(inp, out, cfg)[j].y + Arranged(inp, out, cfg)[j].h + INTER_MODULE_GAP

(***************************************************************************)
(* The editor's handlers                                                  *)
(***************************************************************************)
formVars == <<errorMsg, deepOptimize>>
dragVars == <<currentDragging, dragParent, nodeStart, raf>>
historyVars == <<edits, serial>>

\* the editor after Import has read a file: the tree is what
\* enhanceWithGeometry makes of the parsed file, nothing is selected, and
\* the technology is the one App starts with (TECH_NODES['7nm'])
InitUI ==
    /\ data \in {enhanceWithGeometry(file) : file \in ImportedFiles}
    /\ cfg = TECH_NODES.n7
    /\ selectedId = NullId
    /\ overlapMarkers = <<>>
    /\ errorMsg = NoError
    /\ deepOptimize = FALSE
    /\ pending = <<>>
    /\ clock = 0
    /\ currentDragging = <<>>
    /\ dragParent = <<>>
    /\ nodeStart = <<0, 0>>
    /\ raf = <<>>
    /\ edits = 0
    /\ events = 0
    /\ serial = data
    /\ CoreIdle

\* one more event is handled
Event ==
    /\ events < MaxEvents
    /\ events' = events + 1

\* React renders: the queued updates are applied in order
Commit(queue) ==
    LET st == ApplyAll([data |-> data, selectedId |-> selectedId,
                        overlapMarkers |-> overlapMarkers], queue)
    IN  /\ data' = st.data
        /\ selectedId' = st.selectedId
        /\ overlapMarkers' = st.overlapMarkers
        /\ pending' = <<>>

Render ==
    /\ Event
    /\ pending # <<>>
    /\ Commit(pending)
    /\ UNCHANGED <<cfg, coreVars, formVars, clock, dragVars, historyVars>>

Tick ==
    /\ Event
    /\ clock < MaxClock
    /\ clock' = clock + 1
    /\ UNCHANGED <<cfg, coreVars, data, selectedId, overlapMarkers, pending,
                   formVars, dragVars, historyVars>>

\* App: selectedNode, the node the form edits
SelectedNode ==
    IF selectedId = NullId THEN <<>> ELSE findModuleById(data, selectedId.id)

\* the form shows its controls; the ratio, layout, add and delete controls
\* are hidden while a local-logic block is selected
FormShown == SelectedNode # <<>>
ModuleShown == FormShown /\ ~selectedId.internal

\* HierarchyTree: onClick={() => onSelect(node.id)}
onSelect ==
    /\ Event
    /\ \E i \in DOMAIN IdSeq(data) :
          Commit(pending \o <<SetSelectedId(ModuleId(IdSeq(data)[i]))>>)
    /\ UNCHANGED <<cfg, coreVars, formVars, clock, dragVars, historyVars>>

\* an edit made by onUpdate(id, updates)
IssueUpdate(id, updates) ==
    /\ edits < MaxEdits
    /\ Commit(pending \o handleUpdateNode(id, updates))
    /\ edits' = edits + 1
    /\ serial' = updateNodeInTree(serial, id, updates)

\* the Regs, Mem and Gates inputs
onUpdateCount ==
    /\ Event
    /\ FormShown
    /\ \E f \in CountFields, v \in CountValues :
          IssueUpdate(SelectedNode[1].id, f :> v)
    /\ UNCHANGED <<cfg, coreVars, formVars, clock, dragVars>>

\* the Linked switch
onToggleLinked ==
    /\ Event
    /\ ModuleShown
    /\ IssueUpdate(SelectedNode[1].id,
                   [isRatioLinked |-> ~SelectedNode[1].isRatioLinked])
    /\ UNCHANGED <<cfg, coreVars, formVars, clock, dragVars>>

handleUpdateAR(val) ==
    LET node == SelectedNode[1]
        physicalVal == fromDisplayAR(val)
    IN  /\ val # 0
        /\ IssueUpdate(node.id,
              IF node.isRatioLinked
              THEN [aspectRatio |-> physicalVal, internalAspectRatio |-> physicalVal]
              ELSE [aspectRatio |-> physicalVal])

\* the Shell Ratio input
onShellRatio ==
    /\ Event
    /\ ModuleShown
    /\ \E val \in DisplayValues : handleUpdateAR(val)
    /\ UNCHANGED <<cfg, coreVars, formVars, clock, dragVars>>

\* the internal ratio input, disabled while the ratios are linked
onInternalRatio ==
    /\ Event
    /\ ModuleShown
    /\ ~SelectedNode[1].isRatioLinked
    /\ \E val \in DisplayValues :
          IssueUpdate(SelectedNode[1].id, [internalAspectRatio |-> fromDisplayAR(val)])
    /\ UNCHANGED <<cfg, coreVars, formVars, clock, dragVars>>

\* currentAR lies outside [minFeasibleRatio, maxFeasibleRatio]
inDeadZone(currentAR, stats) ==
    fLT(currentAR, stats.minFeasibleRatio) \/ fGT(currentAR, stats.maxFeasibleRatio)

SnapTarget(currentAR, stats) ==
    IF fLT(currentAR, stats.minFeasibleRatio) THEN stats.minFeasibleRatio
    ELSE IF fGT(currentAR, stats.maxFeasibleRatio) THEN stats.maxFeasibleRatio
    ELSE currentAR

\* the SNAP FIX button, shown in the dead zone
SnapWith(currentAR, stats) ==
    /\ inDeadZone(currentAR, stats)
    /\ handleUpdateAR(toDisplayAR(SnapTarget(currentAR, stats)))

handleSnapToFeasible ==
    /\ Event
    /\ ModuleShown
    /\ SnapWith(SelectedNode[1].aspectRatio,
                calculatePhysicalSize(SelectedNode[1], cfg).stats)
    /\ UNCHANGED <<cfg, coreVars, formVars, clock, dragVars>>

onToggleDeep ==
    /\ Event
    /\ ModuleShown
    /\ deepOptimize' = ~deepOptimize
    /\ Commit(pending)
    /\ UNCHANGED <<cfg, coreVars, errorMsg, clock, dragVars, historyVars>>

\* what Tidy Up does to the node `id` of a tree
TidyEdit(tree, id) ==
    LET n == findModuleById(tree, id)
    IN  IF n = <<>> THEN tree
        ELSE updateNodeInTree(tree, id, organizeChildrenMosaic(n[1], cfg))

TidyUp(node) ==
    /\ errorMsg' = NoError
    /\ Commit(pending \o <<SetOverlapMarkers(<<>>)>>
                      \o handleFullUpdateNode(organizeChildrenMosaic(node, cfg)))
    /\ serial' = TidyEdit(serial, node.id)

handleTidyUp ==
    /\ Event
    /\ ModuleShown
    /\ edits < MaxEdits
    /\ TidyUp(SelectedNode[1])
    /\ edits' = edits + 1
    /\ UNCHANGED <<cfg, coreVars, deepOptimize, clock, dragVars>>

SafetyFence(overlaps) ==
    "[SAFETY FENCE] Detected " \o ToString(Len(overlaps)) \o " physical overlaps."

\* deepOptimize ? optimizeLayoutRecursive(node, config)
\*              : organizeChildrenMosaic(node, config)
OptimizeResult(node, deep) ==
    IF deep THEN optimizeLayoutRecursive(node, cfg)
            ELSE organizeChildrenMosaic(node, cfg)

\* what Optimize does to the node `id` of a tree
OptimizeEdit(tree, id, deep) ==
    LET n == findModuleById(tree, id)
    IN  IF n = <<>> THEN tree
        ELSE IF checkOverlapsInModule(n[1], cfg) # <<>> THEN tree
        ELSE updateNodeInTree(tree, id, OptimizeResult(n[1], deep))

OptimizeChecked(node, overlaps) ==
    /\ IF Len(overlaps) > 0
       THEN /\ errorMsg' = SafetyFence(overlaps)
            /\ Commit(pending \o <<SetOverlapMarkers(overlaps)>>)
            /\ edits' = edits
       ELSE /\ errorMsg' = NoError
            /\ Commit(pending \o <<SetOverlapMarkers(<<>>)>>
                              \o handleFullUpdateNode(OptimizeResult(node, deepOptimize)))
            /\ edits' = edits + 1
    /\ serial' = OptimizeEdit(serial, node.id, deepOptimize)

handleOptimize ==
    /\ Event
    /\ ModuleShown
    /\ edits < MaxEdits
    /\ OptimizeChecked(SelectedNode[1], checkOverlapsInModule(SelectedNode[1], cfg))
    /\ UNCHANGED <<cfg, coreVars, deepOptimize, clock, dragVars>>

onAddChild ==
    /\ Event
    /\ ModuleShown
    /\ edits < MaxEdits
    /\ LET parentId == SelectedNode[1].id
           newId == "m_" \o ToString(clock)
       IN  /\ Commit(pending \o << SetData(AddEdit(parentId, NewBlock(newId))),
                                   SetSelectedId(ModuleId(newId)) >>)
           /\ serial' = addNodeToParent(serial, parentId, NewBlock(newId))
    /\ edits' = edits + 1
    /\ UNCHANGED <<cfg, coreVars, formVars, clock, dragVars>>

\* what Delete does to a tree
DeleteEdit(tree, id) ==
    IF id = "root" \/ deleteNodeInTree(tree, id) = <<>> THEN tree
    ELSE deleteNodeInTree(tree, id)[1]

onDelete ==
    /\ Event
    /\ ModuleShown
    /\ edits < MaxEdits
    /\ LET id == SelectedNode[1].id
           newData == deleteNodeInTree(data, id)
       IN  /\ id # "root"
           /\ newData # <<>>
           /\ Commit(pending \o << SetData(ReplaceEdit(newData[1])),
                                   SetSelectedId(NullId) >>)
           /\ serial' = DeleteEdit(serial, id)
    /\ edits' = edits + 1
    /\ UNCHANGED <<cfg, coreVars, formVars, clock, dragVars>>

(***************************************************************************)
(* The canvas (AutoLayoutView.tsx)                                         *)
(* The pointer is abstracted: a press or click may hit any rectangle of    *)
(* the layout or none, and a move is a displacement in DragMoves.          *)
(***************************************************************************)
\* layoutRef.current.rects
Rects == performLayout(data, cfg).rects

\* rects.find(r => r.id === id && !r.isInternal), or none
RECURSIVE FindModuleRect(_, _)
FindModuleRect(rects, id) ==
    IF rects = <<>> THEN <<>>
    ELSE IF Head(rects).id = id /\ ~Head(rects).isInternal THEN <<Head(rects)>>
    ELSE FindModuleRect(Tail(rects), id)

\* moduleRect || rect
FoundOr(moduleRect, rect) == IF moduleRect # <<>> THEN moduleRect[1] ELSE rect

\* resolveTargetRect with dataRef.current = tree and layoutRef.current.rects = rects
resolveTargetRect(rect, tree, rects) ==
    IF rect.isInternal
    THEN LET ownerModule == findModuleById(tree, rect.id)
         IN  IF ownerModule # <<>> /\ Len(ownerModule[1].children) = 0
             THEN FoundOr(FindModuleRect(rects, ownerModule[1].id), rect)
             ELSE rect
    ELSE rect

\* the rectangles a click can resolve to
ClickTargets(tree, rects) ==
    { resolveTargetRect(rects[i], tree, rects) : i \in DOMAIN rects }

\* the number of updates of one kind that wait for a render
Waiting(kind) == Len(SelectSeq(pending, LAMBDA u : u.kind = kind))

\* svg.on('click'): a d3 listener, so the selection waits for a render
onCanvasClick ==
    /\ Event
    /\ Waiting("selectedId") < MaxWaiting
    /\ \/ \E hit \in ClickTargets(data, Rects) :
             pending' = Append(pending, SetSelectedId(RectId(hit)))
       \/ pending' = Append(pending, SetSelectedId(NullId))
    /\ UNCHANGED <<cfg, coreVars, data, selectedId, overlapMarkers, formVars,
                   clock, dragVars, historyVars>>

\* the drag subject: resolveTargetRect(hit && hit.id !== 'root' ? hit : null)
DragSubjects(tree, rects) ==
    { resolveTargetRect(rects[i], tree, rects) :
        i \in {k \in DOMAIN rects : RectId(rects[k]) # ModuleId("root")} }

\* 'start' on subject d, whose parent findParentOf found, or did not
DragStarted(d, p) ==
    /\ currentDragging' = <<d>>
    /\ dragParent' = p
    /\ pending' = Append(pending, SetSelectedId(RectId(d)))
    /\ nodeStart' =
          IF p = <<>> THEN nodeStart
          ELSE IF d.isInternal
               THEN <<OrZero(p[1].internalX), OrZero(p[1].internalY)>>
               ELSE <<OrZero(d.actualNode.x), OrZero(d.actualNode.y)>>

onDragStart ==
    /\ Event
    /\ currentDragging = <<>>
    /\ Waiting("selectedId") < MaxWaiting
    /\ \E d \in DragSubjects(data, Rects) :
          DragStarted(d, findParentOf(data, RectId(d)))
    /\ UNCHANGED <<cfg, coreVars, data, selectedId, overlapMarkers, formVars,
                   clock, raf, historyVars>>

\* 'drag': requests an animation frame, replacing the one requested before
onDrag ==
    /\ Event
    /\ currentDragging # <<>>
    /\ dragParent # <<>>
    /\ \E move \in DragMoves :
          raf' = <<[d |-> currentDragging[1], p |-> dragParent[1],
                    dx |-> move[1], dy |-> move[2]]>>
    /\ UNCHANGED <<cfg, coreVars, data, selectedId, overlapMarkers, formVars,
                   pending, clock, currentDragging, dragParent, nodeStart,
                   historyVars>>

\* the animation-frame callback
onAnimationFrame ==
    /\ Event
    /\ raf # <<>>
    /\ edits < MaxEdits
    /\ Waiting("data") < MaxWaiting
    /\ LET d == raf[1].d
           p == raf[1].p
           newX == fMax(0, fAdd(nodeStart[1], raf[1].dx))
           newY == fMax(0, fAdd(nodeStart[2], raf[1].dy))
           id == IF d.isInternal THEN p.id ELSE d.id
           updates == IF d.isInternal
                      THEN [internalX |-> newX, internalY |-> newY]
                      ELSE [x |-> newX, y |-> newY]
       IN  /\ pending' = pending \o handleUpdateNode(id, updates)
           /\ serial' = updateNodeInTree(serial, id, updates)
    /\ raf' = <<>>
    /\ edits' = edits + 1
    /\ UNCHANGED <<cfg, coreVars, data, selectedId, overlapMarkers, formVars,
                   clock, currentDragging, dragParent, nodeStart>>

\* 'end'
onDragEnd ==
    /\ Event
    /\ currentDragging # <<>>
    /\ currentDragging' = <<>>
    /\ dragParent' = <<>>
    /\ raf' = <<>>
    /\ UNCHANGED <<cfg, coreVars, data, selectedId, overlapMarkers, formVars,
                   pending, clock, nodeStart, historyVars>>

NextUI ==
    \/ Render
    \/ Tick
    \/ onSelect
    \/ onUpdateCount
    \/ onToggleLinked
    \/ onShellRatio
    \/ onInternalRatio
    \/ handleSnapToFeasible
    \/ onToggleDeep
    \/ handleTidyUp
    \/ handleOptimize
    \/ onAddChild
    \/ onDelete
    \/ onCanvasClick
    \/ onDragStart
    \/ onDrag
    \/ onAnimationFrame
    \/ onDragEnd

SpecUI == InitUI /\ [][NextUI]_vars

(***************************************************************************)
(* Properties of the editor, checked under SpecUI                          *)
(***************************************************************************)
\* the tree a render shows once the updates in `queue` are applied
RenderedData(queue) ==
    ApplyAll([data |-> data, selectedId |-> selectedId,
              overlapMarkers |-> overlapMarkers], queue).data

\* C2: when Tidy Up or Optimize is pressed on a module whose local-logic
\* block and direct children overlap, the request is refused: the markers
\* of checkOverlapsInModule are handed over for display, no edit is issued
\* and the tree shown is the one that was due without the request.
C2_OverlappingModuleRefused ==
    [][ ( /\ ModuleShown
          /\ checkOverlapsInModule(SelectedNode[1], cfg) # <<>>
          /\ (handleTidyUp \/ handleOptimize) )
        => ( /\ edits' = edits
             /\ data' = RenderedData(pending)
             /\ overlapMarkers' = checkOverlapsInModule(SelectedNode[1], cfg) )
      ]_vars

\* C7: in every tree the editor reaches, every node's aspectRatio and its
\* effective internal ratio (aspectRatio when linked, internalAspectRatio
\* otherwise) are strictly greater than 0.
C7_RatiosPositive ==
    \A m \in AllModules(data) :
        /\ fGT(m.aspectRatio, 0)
        /\ fGT(IF m.isRatioLinked THEN m.aspectRatio ELSE m.internalAspectRatio, 0)

\* C8: every edit is made on the tree that results from the edits issued
\* before it: once all queued updates are rendered, the tree is the one
\* obtained by making each issued edit on the result of the previous ones.
C8_EditsSerialized ==
    pending = <<>> => data = serial

\* C9: no two nodes of the tree share an id.
C9_IdsUnique ==
    \A i, j \in DOMAIN IdSeq(data) :
        i # j => IdSeq(data)[i] # IdSeq(data)[j]

\* the tree holds a module of that id
RECURSIVE Holds(_, _)
Holds(node, id) ==
    node.id = id \/ \E i \in DOMAIN node.children : Holds(node.children[i], id)

\* the tree, whose root has another id, with the first module of that id
\* (in document order) and its subtree taken out, and nothing else changed
RECURSIVE CutOut(_, _)
CutOut(node, id) ==
    LET holding == { i \in DOMAIN node.children : Holds(node.children[i], id) }
    IN  IF holding = {} THEN node
        ELSE LET k == CHOOSE i \in holding : \A j \in holding : i <= j
             IN  [node EXCEPT !.children =
                    IF node.children[k].id = id
                    THEN SubSeq(node.children, 1, k - 1)
                         \o SubSeq(node.children, k + 1, Len(node.children))
                    ELSE [node.children EXCEPT ![k] = CutOut(node.children[k], id)]]

\* C27: the root is never deleted: whatever the editor does, the tree is a
\* tree with the root it had; and a Delete of another module takes exactly
\* that module and its subtree out of the authoritative tree, the tree that
\* results from the edits issued so far.
C27_RootKeptAndDeleteExact ==
    [][ /\ data' # NoNode
        /\ data'.id = data.id
        /\ onDelete => data' = CutOut(RenderedData(pending), SelectedNode[1].id)
      ]_vars

\* every position in the tree is a number that is >= 0
NonNegative(tree) ==
    \A m \in AllModules(tree) :
        /\ m.x # NaN /\ m.x >= 0
        /\ m.y # NaN /\ m.y >= 0
        /\ m.internalX # NaN /\ m.internalX >= 0
        /\ m.internalY # NaN /\ m.internalY >= 0

\* the edit writes x or y of the root of the tree
MovesRoot(edit, tree) ==
    /\ edit.op = "update"
    /\ edit.id = tree.id
    /\ DOMAIN edit.updates \cap {"x", "y"} # {}

\* C28: from a tree whose x, y, internalX and internalY are all >= 0, the
\* drags, add-child operations and compactions of the editor lead only to
\* trees in which they are all >= 0; and no drag writes the root's x or y.
C28_PositionsNonNegative ==
    [][ /\ NonNegative(data) => NonNegative(data')
        /\ onAnimationFrame => ~MovesRoot(pending'[Len(pending) + 1].fn, data)
      ]_vars

\* the fields a position update for the dragged rectangle writes
PositionFields(d) == IF d.isInternal THEN {"internalX", "internalY"} ELSE {"x", "y"}

\* the edit is a position update for rectangle d: of the module that owns
\* it when d is a local-logic rectangle, of the module d shows otherwise
AddressedTo(edit, d) ==
    /\ edit.op = "update"
    /\ edit.id = d.id
    /\ DOMAIN edit.updates = PositionFields(d)

\* C30: during a drag at most one position update waits for its animation
\* frame; every update issued is for the rectangle captured at drag start
\* (internalX / internalY of the module that owns a local-logic rectangle,
\* x / y of the module otherwise); and once the drag has ended no update
\* waits any more.
C30_DragProtocol ==
    [][ /\ Len(raf') <= 1
        /\ onAnimationFrame =>
               /\ raf[1].d = currentDragging[1]
               /\ AddressedTo(pending'[Len(pending) + 1].fn, raf[1].d)
        /\ currentDragging' = <<>> => raf' = <<>>
      ]_vars

====
